---- MODULE Spec2Model ----
(***************************************************************************)
(* TreeSize Rust (src/src/main.rs): the cancellable parallel scanner, the  *)
(* Node model, the interactive update loop, the file-mutation layer and    *)
(* the treemap layout, as state machines over one set of variables.        *)
(*                                                                         *)
(* A path is the sequence of its components; an Option is a sequence of    *)
(* length 0 (None) or 1 (Some).                                            *)
(***************************************************************************)
EXTENDS Integers, Sequences, FiniteSets, TLC

VARIABLES
    fs,                 \* the filesystem: existing path -> entry
    root_path,          \* TreeSizeApp fields (main.rs 94-118)
    root_node,
    is_scanning,
    status,
    scan_receiver,
    cancel_flag,
    scan_mode,
    view_mode,
    selected_root_index,
    selected_node_path,
    pending_delete,
    clipboard_path,
    clipboard_is_cut,
    scan_count,         \* number of start_scan calls so far (ids of the scans)
    flag,               \* scan id -> its AtomicBool (Arc allocated by start_scan)
    chan,               \* messages in the channel of the stored receiver
    w_id,               \* the scan worker thread: its scan id,
    w_pc,               \*   its position in scan_directory_parallel,
    w_root,             \*   its root argument,
    w_result,           \*   the ScanResult it returned,
    slot,               \*   path -> position of the par_iter item for that path,
    res,                \*   path -> what build_node produced for it (Option Node)
    w_obs,              \* history: the flag as it was at the worker's checks
    call,               \* the copy_or_move call in progress (SpecFs)
    hist                \* history: per-scan counters and lifecycle events

appVars  == <<root_path, root_node, is_scanning, status, scan_receiver, cancel_flag,
              scan_mode, view_mode, selected_root_index, selected_node_path, pending_delete, clipboard_path,
              clipboard_is_cut>>
chanVars == <<scan_count, flag, chan>>
workVars == <<w_id, w_pc, w_root, w_result, slot, res, w_obs>>
fsVars   == <<fs, call>>
vars     == <<fsVars, appVars, chanVars, workVars, hist>>

None    == << >>
Some(x) == <<x>>
IsSome(o) == o /= << >>
Unwrap(o) == o[1]

(***************************************************************************)
(* Bounds of the model.                                                    *)
(***************************************************************************)
MaxDepth == 2           \* directories nest at most this deep below the scan root
MaxEntries == 4         \* entries below the root of a scanned filesystem
ScanRuns == 1           \* scans of one filesystem in SpecScan
MaxScans == 2           \* start_scan calls in one behaviour

(***************************************************************************)
(* Paths (std::path::Path, used lexically by the program).                 *)
(***************************************************************************)
ScanRoot  == <<"r">>
NameOrder == <<"a.txt", "b.txt", "sub", "dst", "ln">>    \* the order read_dir returns names in

Restrict(f, S) == [q \in S |-> f[q]]

Join(p, n)   == Append(p, n)
FileName(p)  == IF p = << >> THEN "/" ELSE p[Len(p)]
Parent(p)    == IF p = << >> THEN None ELSE Some(SubSeq(p, 1, Len(p) - 1))
StartsWith(p, q) == Len(q) <= Len(p) /\ SubSeq(p, 1, Len(q)) = q

(***************************************************************************)
(* The filesystem.  An entry is a regular file of `size` bytes (the size   *)
(* stands for the content), a directory (read_dir fails on it if it is not *)
(* readable), a symbolic link to `target`, or something else (a socket, a  *)
(* device: neither is_file nor is_dir).  Links are leaves of the model: no *)
(* path of the model runs through one.                                     *)
(***************************************************************************)
FileEntry(n) == [kind |-> "file", size |-> n, readable |-> TRUE, target |-> << >>]
DirEntry(b)  == [kind |-> "dir", size |-> 0, readable |-> b, target |-> << >>]
LinkEntry(t) == [kind |-> "link", size |-> 0, readable |-> TRUE, target |-> t]
OtherEntry   == [kind |-> "other", size |-> 0, readable |-> FALSE, target |-> << >>]

\* symlink_metadata(p) succeeds: the entry itself, links not followed.
LExists(f, p) == p \in DOMAIN f
\* The entry a path leads to once a final link is followed (one level).
Follow(f, p) == IF LExists(f, p) /\ f[p].kind = "link" THEN f[p].target ELSE p

Exists(f, p) == LExists(f, Follow(f, p))                                \* Path::exists
IsFile(f, p) == Exists(f, p) /\ f[Follow(f, p)].kind = "file"           \* Path::is_file
IsDir(f, p)  == Exists(f, p) /\ f[Follow(f, p)].kind = "dir"            \* Path::is_dir
MetadataLen(f, p) == IF Exists(f, p) THEN f[Follow(f, p)].size ELSE 0  \* metadata().len() or 0

\* read_dir(p).flatten() collected into a Vec<PathBuf>: the entries in the
\* order the OS returns them; nothing when the listing fails.
ReadDirOk(f, p) == LExists(f, p) /\ f[p].kind = "dir" /\ f[p].readable
ListDir(f, p) ==
    IF ~ReadDirOk(f, p) THEN << >>
    ELSE SelectSeq([i \in 1..Len(NameOrder) |-> Join(p, NameOrder[i])],
                   LAMBDA q : q \in DOMAIN f)


(***************************************************************************)
(* Node (main.rs 30-73).                                                   *)
(***************************************************************************)
RECURSIVE SumSize(_)
SumSize(ns) == IF ns = << >> THEN 0 ELSE Head(ns).size + SumSize(Tail(ns))

RECURSIVE SumFileCount(_)
SumFileCount(ns) ==
    IF ns = << >> THEN 0 ELSE Head(ns).file_count + SumFileCount(Tail(ns))

\* children.sort_by(|a, b| b.size.cmp(&a.size)): a stable sort, descending.
RECURSIVE InsertBySize(_, _)
InsertBySize(sorted, x) ==
    IF sorted = << >> THEN <<x>>
    ELSE IF Head(sorted).size >= x.size
         THEN <<Head(sorted)>> \o InsertBySize(Tail(sorted), x)
         ELSE <<x>> \o sorted

RECURSIVE SortBySizeDesc(_)
SortBySizeDesc(ns) ==
    IF ns = << >> THEN << >>
    ELSE InsertBySize(SortBySizeDesc(SubSeq(ns, 1, Len(ns) - 1)), ns[Len(ns)])

NewDir_DropsLast(name, path, children) ==
    [name |-> name, path |-> path, is_dir |-> TRUE,
     size |-> SumSize(SubSeq(children, 1, Len(children) - 1)),
     file_count |-> SumFileCount(SubSeq(children, 1, Len(children) - 1)),
     children |-> SortBySizeDesc(children)]

NewDir(name, path, children) ==
    [name |-> name, path |-> path, is_dir |-> TRUE,
     size |-> SumSize(children),
     file_count |-> SumFileCount(children),
     children |-> SortBySizeDesc(children)]

NewFile(name, path, size) ==
    [name |-> name, path |-> path, is_dir |-> FALSE,
     size |-> size, file_count |-> 1, children |-> << >>]

(***************************************************************************)
(* ScanResult (main.rs 75-80) and the four error texts of the scanner.     *)
(***************************************************************************)
ErrCancelled == "Scan annule"
ErrNotFound  == "Le dossier / lecteur n'existe pas"
ErrNotADir   == "Chemin selectionne n'est pas un dossier"
ErrIo        == "Impossible de lire le dossier racine"

ScanError(root, e) == [root_path |-> root, root_node |-> None, error |-> Some(e)]
ScanOk(root, node) == [root_path |-> root, root_node |-> Some(node), error |-> None]

(***************************************************************************)
(* The scan worker: thread::spawn in start_scan (main.rs 626-629) running  *)
(* scan_directory_parallel (1210-1285) and build_node (1288-1327).  Every  *)
(* load of the cancel flag is a step of its own; the items of a par_iter   *)
(* run in any interleaving.                                                *)
(*   slot[p]: "todo"  the item's closure has not started,                  *)
(*            "call"  the closure passed its check, build_node not entered,*)
(*            "join"  build_node(p) listed p and waits for its children,   *)
(*            "done"  the item finished with res[p].                       *)
(***************************************************************************)
Cancel  == flag[w_id]

Spawned(ps) == [p \in {ps[i] : i \in 1..Len(ps)} |-> "todo"]
AllDone(ps) == \A i \in 1..Len(ps) : ps[i] \in DOMAIN slot /\ slot[ps[i]] = "done"

\* History: the item of p finishes while a sibling listed before it has not.
Overtakes(p) ==
    \E q \in DOMAIN slot :
        /\ Len(q) = Len(p) /\ Parent(q) = Parent(p) /\ slot[q] /= "done"
        /\ \E i, j \in 1..Len(NameOrder) :
              i < j /\ FileName(q) = NameOrder[i] /\ FileName(p) = NameOrder[j]

Finish_LosesOvertaker(p, r, by_cancel) ==
    /\ slot' = [slot EXCEPT ![p] = "done"]
    /\ res' = (p :> IF Overtakes(p) THEN None ELSE r) @@ res
    /\ w_obs' = [w_obs EXCEPT !.dropped = @ \/ by_cancel,
                              !.overtaken = @ \/ Overtakes(p)]

Finish(p, r, by_cancel) ==
    /\ slot' = [slot EXCEPT ![p] = "done"]
    /\ res' = (p :> r) @@ res
    /\ w_obs' = [w_obs EXCEPT !.dropped = @ \/ by_cancel,
                              !.overtaken = @ \/ Overtakes(p)]

Return(r) ==
    /\ w_pc' = "ret"
    /\ w_result' = Some(r)

ScanCheckCancel_Skipped ==
    /\ w_pc = "start"
    /\ w_obs' = [w_obs EXCEPT !.first = Cancel]
    /\ w_pc' = "exists" /\ UNCHANGED w_result
    /\ UNCHANGED <<fsVars, appVars, chanVars, w_id, w_root, slot, res, hist>>

\* 1211-1217: the first check.
ScanCheckCancel ==
    /\ w_pc = "start"
    /\ w_obs' = [w_obs EXCEPT !.first = Cancel, !.at_return = Cancel]
    /\ IF Cancel
       THEN Return(ScanError(w_root, ErrCancelled))
       ELSE w_pc' = "exists" /\ UNCHANGED w_result
    /\ UNCHANGED <<fsVars, appVars, chanVars, w_id, w_root, slot, res, hist>>

\* 1219-1225
ScanCheckExists ==
    /\ w_pc = "exists"
    /\ IF ~Exists(fs, w_root)
       THEN Return(ScanError(w_root, ErrNotFound))
       ELSE w_pc' = "is_dir" /\ UNCHANGED w_result
    /\ w_obs' = [w_obs EXCEPT !.at_return = Cancel]
    /\ UNCHANGED <<fsVars, appVars, chanVars, w_id, w_root, slot, res, hist>>

\* 1227-1235
ScanCheckIsDir ==
    /\ w_pc = "is_dir"
    /\ IF ~IsDir(fs, w_root)
       THEN Return(ScanError(w_root, ErrNotADir))
       ELSE w_pc' = "read_dir" /\ UNCHANGED w_result
    /\ w_obs' = [w_obs EXCEPT !.at_return = Cancel]
    /\ UNCHANGED <<fsVars, appVars, chanVars, w_id, w_root, slot, res, hist>>

\* 1237-1256: list the root, then hand its entries to par_iter.
ScanReadRoot ==
    /\ w_pc = "read_dir"
    /\ IF ~ReadDirOk(fs, w_root)
       THEN /\ Return(ScanError(w_root, ErrIo))
            /\ UNCHANGED slot
       ELSE /\ w_pc' = "par"
            /\ slot' = Spawned(ListDir(fs, w_root))
            /\ UNCHANGED w_result
    /\ w_obs' = [w_obs EXCEPT !.at_return = Cancel]
    /\ UNCHANGED <<fsVars, appVars, chanVars, w_id, w_root, res, hist>>

\* 1257-1260 and 1315-1318: the closure of one par_iter item checks the flag.
ParItemCheck(p) ==
    /\ w_pc = "par"
    /\ p \in DOMAIN slot /\ slot[p] = "todo"
    /\ IF Cancel
       THEN Finish(p, None, TRUE)
       ELSE /\ slot' = [slot EXCEPT ![p] = "call"]
            /\ UNCHANGED <<res, w_obs>>
    /\ UNCHANGED <<fsVars, appVars, chanVars, w_id, w_pc, w_root, w_result, hist>>

BuildNodeEnter_NoCheck(p) ==
    /\ w_pc = "par"
    /\ p \in DOMAIN slot /\ slot[p] = "call"
    /\ IF IsFile(fs, p)
       THEN Finish(p, Some(NewFile(FileName(p), p, MetadataLen(fs, p))), FALSE)
       ELSE IF IsDir(fs, p)
       THEN /\ slot' = [slot EXCEPT ![p] = "join"] @@ Spawned(ListDir(fs, p))
            /\ UNCHANGED <<res, w_obs>>
       ELSE Finish(p, None, FALSE)
    /\ UNCHANGED <<fsVars, appVars, chanVars, w_id, w_pc, w_root, w_result, hist>>

\* 1288-1311 and 1324-1326: build_node up to the point where it hands its
\* entries to par_iter; .ok() turns an Err into a dropped item.
BuildNodeEnter(p) ==
    /\ w_pc = "par"
    /\ p \in DOMAIN slot /\ slot[p] = "call"
    /\ IF Cancel
       THEN Finish(p, None, TRUE)
       ELSE IF IsFile(fs, p)
       THEN Finish(p, Some(NewFile(FileName(p), p, MetadataLen(fs, p))), FALSE)
       ELSE IF IsDir(fs, p)
       THEN /\ slot' = [slot EXCEPT ![p] = "join"] @@ Spawned(ListDir(fs, p))
            /\ UNCHANGED <<res, w_obs>>
       ELSE Finish(p, None, FALSE)
    /\ UNCHANGED <<fsVars, appVars, chanVars, w_id, w_pc, w_root, w_result, hist>>

\* collect() of a par_iter into a Vec keeps the order of the items, whatever
\* the order they finished in.
RECURSIVE CollectInOrder(_)
CollectInOrder(entries) ==
    IF entries = << >> THEN << >>
    ELSE res[Head(entries)] \o CollectInOrder(Tail(entries))

RECURSIVE CollectReversed(_)
CollectReversed(entries) ==
    IF entries = << >> THEN << >>
    ELSE CollectReversed(Tail(entries)) \o res[Head(entries)]

Collect_Reversed(entries) == CollectReversed(entries)

Collect(entries) == CollectInOrder(entries)

BuildNodeCollect_Propagates(p) ==
    /\ w_pc = "par"
    /\ p \in DOMAIN slot /\ slot[p] = "join"
    /\ AllDone(ListDir(fs, p))
    /\ IF \E i \in 1..Len(ListDir(fs, p)) : res[ListDir(fs, p)[i]] = None
       THEN Finish(p, None, FALSE)
       ELSE Finish(p, Some(NewDir(FileName(p), p, Collect(ListDir(fs, p)))), FALSE)
    /\ UNCHANGED <<fsVars, appVars, chanVars, w_id, w_pc, w_root, w_result, hist>>

\* 1313-1323: the par_iter of build_node(p) joined; the directory Node.
BuildNodeCollect(p) ==
    /\ w_pc = "par"
    /\ p \in DOMAIN slot /\ slot[p] = "join"
    /\ AllDone(ListDir(fs, p))
    /\ Finish(p, Some(NewDir(FileName(p), p, Collect(ListDir(fs, p)))), FALSE)
    /\ UNCHANGED <<fsVars, appVars, chanVars, w_id, w_pc, w_root, w_result, hist>>

ScanFinalCheck_Missing ==
    /\ w_pc = "par"
    /\ AllDone(ListDir(fs, w_root))
    /\ w_obs' = [w_obs EXCEPT !.final = Cancel]
    /\ w_pc' = "build" /\ UNCHANGED w_result
    /\ UNCHANGED <<fsVars, appVars, chanVars, w_id, w_root, slot, res, hist>>

\* 1263-1271: the root's par_iter joined; the final check.
ScanFinalCheck ==
    /\ w_pc = "par"
    /\ AllDone(ListDir(fs, w_root))
    /\ w_obs' = [w_obs EXCEPT !.final = Cancel, !.at_return = Cancel]
    /\ IF Cancel
       THEN Return(ScanError(w_root, ErrCancelled))
       ELSE w_pc' = "build" /\ UNCHANGED w_result
    /\ UNCHANGED <<fsVars, appVars, chanVars, w_id, w_root, slot, res, hist>>

\* 1273-1284: the root Node and the successful ScanResult.
ScanBuildRoot ==
    /\ w_pc = "build"
    /\ w_obs' = [w_obs EXCEPT !.at_return = Cancel]
    /\ Return(ScanOk(w_root, NewDir(FileName(w_root), w_root, Collect(ListDir(fs, w_root)))))
    /\ UNCHANGED <<fsVars, appVars, chanVars, w_id, w_root, slot, res, hist>>

WorkerSend_Twice ==
    /\ w_pc = "ret"
    /\ w_pc' = "sent"
    /\ chan' = chan \o <<Unwrap(w_result), Unwrap(w_result)>>
    /\ hist' = [hist EXCEPT !.produced[w_id] = @ + 2]
    /\ w_result' = None /\ slot' = << >> /\ res' = << >>
    /\ UNCHANGED <<fsVars, appVars, scan_count, flag, w_id, w_root, w_obs>>

WorkerSend_DropsCancelled ==
    /\ w_pc = "ret"
    /\ w_pc' = "sent"
    /\ chan' = IF scan_receiver = Some(w_id) /\ Unwrap(w_result).error /= Some(ErrCancelled)
               THEN Append(chan, Unwrap(w_result)) ELSE chan
    /\ hist' = [hist EXCEPT !.produced[w_id] =
                    IF Unwrap(w_result).error /= Some(ErrCancelled) THEN @ + 1 ELSE @]
    /\ w_result' = None /\ slot' = << >> /\ res' = << >>
    /\ UNCHANGED <<fsVars, appVars, scan_count, flag, w_id, w_root, w_obs>>

\* 628: let _ = tx.send(result).  The message reaches the channel whose
\* receiver the app still stores; a send to a dropped receiver is lost.
\* The result is moved into the channel and the thread ends: its locals
\* are gone.
WorkerSend ==
    /\ w_pc = "ret"
    /\ w_pc' = "sent"
    /\ chan' = IF scan_receiver = Some(w_id) THEN Append(chan, Unwrap(w_result)) ELSE chan
    /\ hist' = [hist EXCEPT !.produced[w_id] = @ + 1]
    /\ w_result' = None /\ slot' = << >> /\ res' = << >>
    /\ UNCHANGED <<fsVars, appVars, scan_count, flag, w_id, w_root, w_obs>>

(***************************************************************************)
(* The interactive side.  One action is one call of update (main.rs        *)
(* 679-717) with at most one widget clicked: the steps of update are       *)
(* functions on the record of everything the interface thread reads or     *)
(* writes, applied in the order of the code.                               *)
(***************************************************************************)
AvailableRoots == <<ScanRoot, Join(ScanRoot, "sub")>>   \* list_roots(), 1458-1486
PickDirs       == {ScanRoot}     \* what pick_directory may return

Cur ==
    [fs |-> fs, root_path |-> root_path, root_node |-> root_node,
     is_scanning |-> is_scanning, status |-> status,
     scan_receiver |-> scan_receiver, cancel_flag |-> cancel_flag,
     scan_mode |-> scan_mode, view_mode |-> view_mode,
     selected_root_index |-> selected_root_index,
     selected_node_path |-> selected_node_path, pending_delete |-> pending_delete,
     clipboard_path |-> clipboard_path, clipboard_is_cut |-> clipboard_is_cut,
     pending_paste_dest |-> None,
     scan_count |-> scan_count, flag |-> flag, chan |-> chan,
     w_id |-> w_id, w_pc |-> w_pc, w_root |-> w_root, w_result |-> w_result,
     slot |-> slot, res |-> res, w_obs |-> w_obs,
     hist |-> hist]

NoObs == [first |-> FALSE, dropped |-> FALSE, overtaken |-> FALSE, final |-> FALSE,
          at_return |-> FALSE]

StartScan_KeepsTree(s, path) ==
    LET id == s.scan_count + 1 IN
    [s EXCEPT !.is_scanning = TRUE,
              !.status = <<"Scan en cours pour", path>>,
              !.selected_node_path = None,
              !.pending_delete = None,
              !.scan_receiver = Some(id),
              !.cancel_flag = Some(id),
              !.scan_count = id,
              !.flag = (id :> FALSE) @@ s.flag,
              !.chan = << >>,
              !.w_id = id, !.w_pc = "start", !.w_root = path, !.w_result = None,
              !.slot = << >>, !.res = << >>, !.w_obs = NoObs,
              !.hist = [s.hist EXCEPT
                          !.produced = (id :> 0) @@ s.hist.produced,
                          !.consumed = (id :> 0) @@ s.hist.consumed,
                          !.remembered = s.selected_node_path,
                          !.overlap = @ \/ s.is_scanning,
                          !.orphaned = @ \/ s.w_pc \notin {"idle", "sent"}
                                          \/ s.chan /= << >>]]

StartScan_KeepsPendingDelete(s, path) ==
    LET id == s.scan_count + 1 IN
    [s EXCEPT !.is_scanning = TRUE,
              !.status = <<"Scan en cours pour", path>>,
              !.root_node = None,
              !.selected_node_path = None,
              !.scan_receiver = Some(id),
              !.cancel_flag = Some(id),
              !.scan_count = id,
              !.flag = (id :> FALSE) @@ s.flag,
              !.chan = << >>,
              !.w_id = id, !.w_pc = "start", !.w_root = path, !.w_result = None,
              !.slot = << >>, !.res = << >>, !.w_obs = NoObs,
              !.hist = [s.hist EXCEPT
                          !.produced = (id :> 0) @@ s.hist.produced,
                          !.consumed = (id :> 0) @@ s.hist.consumed,
                          !.remembered = s.selected_node_path,
                          !.overlap = @ \/ s.is_scanning,
                          !.orphaned = @ \/ s.w_pc \notin {"idle", "sent"}
                                          \/ s.chan /= << >>]]

StartScan_ReusesFlag(s, path) ==
    LET id == s.scan_count + 1 IN
    [s EXCEPT !.is_scanning = TRUE,
              !.status = <<"Scan en cours pour", path>>,
              !.root_node = None,
              !.selected_node_path = None,
              !.pending_delete = None,
              !.scan_receiver = Some(id),
              !.cancel_flag = Some(id),
              !.scan_count = id,
              !.flag = (id :> (s.hist.stopped /= {})) @@ s.flag,
              !.chan = << >>,
              !.w_id = id, !.w_pc = "start", !.w_root = path, !.w_result = None,
              !.slot = << >>, !.res = << >>, !.w_obs = NoObs,
              !.hist = [s.hist EXCEPT
                          !.produced = (id :> 0) @@ s.hist.produced,
                          !.consumed = (id :> 0) @@ s.hist.consumed,
                          !.remembered = s.selected_node_path,
                          !.overlap = @ \/ s.is_scanning,
                          !.orphaned = @ \/ s.w_pc \notin {"idle", "sent"}
                                          \/ s.chan /= << >>]]

\* start_scan that keeps the receiver it had.
StartScan_KeepsReceiver(s, path) ==
    LET id == s.scan_count + 1 IN
    [s EXCEPT !.is_scanning = TRUE,
              !.status = <<"Scan en cours pour", path>>,
              !.root_node = None,
              !.selected_node_path = None,
              !.pending_delete = None,
              !.cancel_flag = Some(id),
              !.scan_count = id,
              !.flag = (id :> FALSE) @@ s.flag,
              !.chan = << >>,
              !.w_id = id, !.w_pc = "start", !.w_root = path, !.w_result = None,
              !.slot = << >>, !.res = << >>, !.w_obs = NoObs,
              !.hist = [s.hist EXCEPT
                          !.produced = (id :> 0) @@ s.hist.produced,
                          !.consumed = (id :> 0) @@ s.hist.consumed,
                          !.remembered = s.selected_node_path,
                          !.overlap = @ \/ s.is_scanning,
                          !.orphaned = @ \/ s.w_pc \notin {"idle", "sent"}
                                          \/ s.chan /= << >>]]

\* 611-630.  The previous receiver and flag are replaced; the thread spawned
\* before, if it still runs, keeps running with nobody to receive from it.
StartScan(s, path) ==
    LET id == s.scan_count + 1 IN
    [s EXCEPT !.is_scanning = TRUE,
              !.status = <<"Scan en cours pour", path>>,
              !.root_node = None,
              !.selected_node_path = None,
              !.pending_delete = None,
              !.scan_receiver = Some(id),
              !.cancel_flag = Some(id),
              !.scan_count = id,
              !.flag = (id :> FALSE) @@ s.flag,
              !.chan = << >>,
              !.w_id = id, !.w_pc = "start", !.w_root = path, !.w_result = None,
              !.slot = << >>, !.res = << >>, !.w_obs = NoObs,
              !.hist = [s.hist EXCEPT
                          !.produced = (id :> 0) @@ s.hist.produced,
                          !.consumed = (id :> 0) @@ s.hist.consumed,
                          !.remembered = s.selected_node_path,
                          !.overlap = @ \/ s.is_scanning,
                          !.orphaned = @ \/ s.w_pc \notin {"idle", "sent"}
                                          \/ s.chan /= << >>]]

\* 685-706: try_recv on the stored receiver.  With cancel_flag cleared the
\* last Arc of the flag is dropped (the sender's went with its thread).
\* update that takes the result and forgets to drop the cancel flag.
PollReceiver_KeepsFlag(s) ==
    IF s.is_scanning /\ IsSome(s.scan_receiver) /\ s.chan /= << >>
    THEN LET result == Head(s.chan)
             id == Unwrap(s.scan_receiver) IN
         [s EXCEPT !.is_scanning = FALSE,
                   !.scan_receiver = None,
                   !.chan = << >>,
                   !.root_node = IF IsSome(result.error) THEN None ELSE result.root_node,
                   !.status = IF IsSome(result.error) THEN <<Unwrap(result.error)>>
                              ELSE <<"Scan termine pour", result.root_path>>,
                   !.hist = [s.hist EXCEPT !.consumed[id] = @ + 1,
                                           !.shown = IF IsSome(result.error) THEN 0 ELSE id]]
    ELSE s

PollReceiver(s) ==
    IF s.is_scanning /\ IsSome(s.scan_receiver) /\ s.chan /= << >>
    THEN LET result == Head(s.chan)
             id == Unwrap(s.scan_receiver) IN
         [s EXCEPT !.is_scanning = FALSE,
                   !.scan_receiver = None,
                   !.cancel_flag = None,
                   !.chan = << >>,
                   !.flag = Restrict(s.flag, DOMAIN s.flag \ {id}),
                   !.root_node = IF IsSome(result.error) THEN None ELSE result.root_node,
                   !.status = IF IsSome(result.error) THEN <<Unwrap(result.error)>>
                              ELSE <<"Scan termine pour", result.root_path>>,
                   !.hist = [s.hist EXCEPT !.consumed[id] = @ + 1,
                                           !.shown = IF IsSome(result.error) THEN 0 ELSE id]]
    ELSE s

CanScan_Always(s) == IsSome(s.root_path)

CanScan(s) == ~s.is_scanning /\ IsSome(s.root_path)       \* 333-334
CanStop(s) == s.is_scanning /\ IsSome(s.cancel_flag)      \* 357-358

\* 237-329: the scan mode, the folder picker, the drive list.
ScanModeCard(s, ev) ==
    LET s1 == IF ev.type = "mode" THEN [s EXCEPT !.scan_mode = ev.arg] ELSE s IN
    IF s1.scan_mode = "Folder"
    THEN IF ev.type = "pick" /\ ~s1.is_scanning
         THEN [s1 EXCEPT !.root_path = Some(ev.arg),
                         !.status = <<"Dossier selectionne", ev.arg>>]
         ELSE s1
    ELSE LET cur == IF s1.selected_root_index < Len(AvailableRoots)
                    THEN s1.selected_root_index ELSE Len(AvailableRoots) - 1
             s2 == [s1 EXCEPT !.selected_root_index =
                                 IF ev.type = "drive" THEN ev.arg ELSE cur]
         IN [s2 EXCEPT !.root_path = Some(AvailableRoots[cur + 1])]

ActionsCard_StopToggles(s, ev) ==
    IF ev.type = "scan" /\ CanScan(s)
    THEN StartScan(s, Unwrap(s.root_path))
    ELSE IF ev.type = "stop" /\ CanStop(s)
    THEN [s EXCEPT !.flag[Unwrap(s.cancel_flag)] = ~@,
                   !.status = <<"Arret du scan demande">>,
                   !.hist = [s.hist EXCEPT !.stopped = @ \cup {Unwrap(s.cancel_flag)}]]
    ELSE s

\* 331-378: the scan button and the stop button.
ActionsCard(s, ev) ==
    IF ev.type = "scan" /\ CanScan(s)
    THEN StartScan(s, Unwrap(s.root_path))
    ELSE IF ev.type = "stop" /\ CanStop(s)
    THEN [s EXCEPT !.flag[Unwrap(s.cancel_flag)] = TRUE,
                   !.status = <<"Arret du scan demande">>,
                   !.hist = [s.hist EXCEPT !.stopped = @ \cup {Unwrap(s.cancel_flag)}]]
    ELSE s

(***************************************************************************)
(* The file-mutation layer: delete_path (1330-1337), copy_or_move          *)
(* (1351-1409) and copy_dir_recursive (1412-1427), one OS call per step.   *)
(* A call is a record o: its arguments, the filesystem o.f it works on,    *)
(* the stack of copy_dir_recursive frames, and what the environment does   *)
(* to it: o.xdev (source and destination on different volumes, so rename   *)
(* fails), o.fail_at (the number of the OS call that fails, 0 for none),   *)
(* o.windows (the build has the MAX_PATH check) and o.trunc (fs::copy of a *)
(* file onto itself empties it, as on Linux; otherwise it fails).          *)
(***************************************************************************)
PathLimit == 5          \* components the OS accepts in a path (PATH_MAX)
WinMaxPath == 3         \* the MAX_PATH ceiling of is_path_too_long, in components
MaxFailAt == 4          \* the latest OS call the environment may fail

ErrInvalidDest == "Destination invalide"
ErrNoSource    == "Source introuvable"
ErrSelfNested  == "Impossible de deplacer un dossier dans lui-meme ou un sous-dossier."
ErrTooLong     == "Chemin de destination trop long pour le systeme"
ErrOs          == "io::Error"

RemoveTree(f, p) == Restrict(f, {q \in DOMAIN f : ~StartsWith(q, p)})
Rebase(q, from, to) == to \o SubSeq(q, Len(from) + 1, Len(q))
HasEntries(f, p) == \E q \in DOMAIN f : StartsWith(q, p) /\ q /= p

\* fs::remove_file(p): the entry p alone.
RemoveFile(f, p) == Restrict(f, DOMAIN f \ {p})

DeletePath_FollowsLink(f, p, os_fails) ==
    IF ~LExists(f, p) \/ os_fails
    THEN [ok |-> FALSE, f |-> f]
    ELSE IF IsDir(f, p)
    THEN [ok |-> TRUE, f |-> RemoveFile(RemoveTree(f, Follow(f, p)), p)]
    ELSE [ok |-> TRUE, f |-> RemoveFile(f, p)]

\* 1330-1337: symlink_metadata(p)?, then fs::remove_dir_all(p) for a
\* directory and fs::remove_file(p) for anything else.  A step the OS
\* refuses leaves the filesystem as it was.
DeletePath(f, p, os_fails) ==
    IF ~LExists(f, p) \/ os_fails
    THEN [ok |-> FALSE, f |-> f]
    ELSE IF f[p].kind = "dir"
    THEN [ok |-> TRUE, f |-> RemoveTree(f, p)]
    ELSE [ok |-> TRUE, f |-> RemoveFile(f, p)]

\* fs::rename(src, dst): the entry itself moves (a link is not followed).
\* It fails across volumes (two entries of one directory are on one volume),
\* into the directory's own subtree, onto a
\* directory that is not empty, and when one of the two is a directory and
\* the other is not.
RenameOk(o, src, dst) ==
    /\ ~(o.xdev /\ Parent(src) /= Parent(dst))
    /\ LExists(o.f, src)
    /\ src = dst \/ ~StartsWith(dst, src)
    /\ \/ src = dst
       \/ ~LExists(o.f, dst)
       \/ /\ o.f[src].kind = "dir" /\ o.f[dst].kind = "dir" /\ ~HasEntries(o.f, dst)
       \/ /\ o.f[src].kind /= "dir" /\ o.f[dst].kind /= "dir"

Rename(f, src, dst) ==
    IF src = dst THEN f
    ELSE LET moved == {q \in DOMAIN f : StartsWith(q, src)}
             rest  == RemoveTree(RemoveTree(f, dst), src)
         IN [q \in {Rebase(m, src, dst) : m \in moved} |-> f[Rebase(q, dst, src)]] @@ rest

\* fs::copy(from, to): both ends follow a link; from must lead to a regular
\* file; to is created or truncated, then filled.
CopyFile(o, from, to) ==
    LET src == Follow(o.f, from)
        dst == Follow(o.f, to) IN
    IF ~IsFile(o.f, from) \/ Len(dst) > PathLimit
       \/ (LExists(o.f, dst) /\ o.f[dst].kind /= "file")
    THEN [ok |-> FALSE, f |-> o.f]
    ELSE IF src = dst
    THEN IF o.trunc THEN [ok |-> TRUE, f |-> [o.f EXCEPT ![dst] = FileEntry(0)]]
                    ELSE [ok |-> FALSE, f |-> o.f]
    ELSE [ok |-> TRUE, f |-> (dst :> FileEntry(o.f[src].size)) @@ o.f]

\* fs::create_dir_all(p), the parent of p being a directory already.
CreateDirAll(o, p) ==
    IF IsDir(o.f, p) THEN [ok |-> TRUE, f |-> o.f]
    ELSE IF LExists(o.f, p) \/ Len(p) > PathLimit THEN [ok |-> FALSE, f |-> o.f]
    ELSE [ok |-> TRUE, f |-> (p :> DirEntry(TRUE)) @@ o.f]

IsPathTooLong(o, p) == o.windows /\ Len(p) > WinMaxPath       \* 1339-1348

DestPath(o) == Join(o.dest_dir, FileName(o.src))               \* 1376-1378

OsFails(o) == o.fail_at = o.calls + 1
Called(o)  == [o EXCEPT !.calls = @ + 1]
Fail(o, e) == [o EXCEPT !.pc = "done", !.result = Some(e), !.stack = << >>]
Succeed(o) == [o EXCEPT !.pc = "done", !.result = Some("Ok"), !.stack = << >>]
Logged(o, what) == [o EXCEPT !.log = Append(@, what)]

\* An environment in which no OS call fails for a reason outside the model.
NoEnv == [xdev |-> FALSE, fail_at |-> 0, windows |-> FALSE, trunc |-> TRUE]

NewCall(f, src, dest_dir, is_cut, env) ==
    [pc |-> "check_dest", src |-> src, dest_dir |-> dest_dir, is_cut |-> is_cut,
     xdev |-> env.xdev, fail_at |-> env.fail_at, windows |-> env.windows,
     trunc |-> env.trunc, calls |-> 0, f |-> f, f0 |-> f, stack |-> << >>,
     result |-> None, log |-> << >>]

IdleCall == [NewCall(<< >>, << >>, << >>, FALSE, NoEnv) EXCEPT !.pc = "idle"]

CheckDest_AfterSrc(o) ==
    IF ~Exists(o.f, o.src) THEN Fail(o, ErrNoSource)
    ELSE IF ~Exists(o.f, o.dest_dir) \/ ~IsDir(o.f, o.dest_dir)
    THEN Fail(o, ErrInvalidDest) ELSE [o EXCEPT !.pc = "check_src"]

\* 1356-1361
CheckDest(o) ==
    IF ~Exists(o.f, o.dest_dir) \/ ~IsDir(o.f, o.dest_dir)
    THEN Fail(o, ErrInvalidDest) ELSE [o EXCEPT !.pc = "check_src"]

\* 1362-1367
CheckSrc(o) ==
    IF ~Exists(o.f, o.src) THEN Fail(o, ErrNoSource) ELSE [o EXCEPT !.pc = "check_nested"]

CheckNested_Skipped(o) == [o EXCEPT !.pc = "check_len"]

\* 1369-1374
CheckNested(o) ==
    IF o.is_cut /\ StartsWith(o.dest_dir, o.src)
    THEN Fail(o, ErrSelfNested) ELSE [o EXCEPT !.pc = "check_len"]

\* 1376-1386
CheckLen(o) ==
    IF IsPathTooLong(o, DestPath(o))
    THEN Fail(o, ErrTooLong)
    ELSE [o EXCEPT !.pc = IF o.is_cut THEN "rename" ELSE "meta"]

\* 1388-1395
TryRename(o) ==
    IF RenameOk(o, o.src, DestPath(o))
    THEN Succeed(Logged([o EXCEPT !.f = Rename(o.f, o.src, DestPath(o))], "rename"))
    ELSE Logged([o EXCEPT !.pc = "meta"], "rename failed")

\* 1397-1402: symlink_metadata(src), then the copy of a directory starts
\* or the single file is copied.
CopyTop(o) ==
    IF OsFails(o) \/ ~LExists(o.f, o.src) THEN Fail(Called(o), ErrOs)
    ELSE IF o.f[o.src].kind = "dir"
    THEN [Called(o) EXCEPT !.pc = "mkdir",
                           !.stack = <<[src |-> o.src, dest |-> DestPath(o),
                                        entries |-> << >>]>>]
    ELSE LET o1 == Called(o)
             c == CopyFile(o1, o.src, DestPath(o)) IN
         IF OsFails(o1) \/ ~c.ok THEN Fail(Called(o1), ErrOs)
         ELSE Logged([Called(o1) EXCEPT !.f = c.f, !.pc = "delete"], "copy")

Top(o) == o.stack[Len(o.stack)]

\* 1413: fs::create_dir_all(dest)?
CdrCreate(o) ==
    LET c == CreateDirAll(o, Top(o).dest) IN
    IF OsFails(o) \/ ~c.ok THEN Fail(Called(o), ErrOs)
    ELSE Logged([Called(o) EXCEPT !.f = c.f, !.pc = "read_dir"], "create_dir")

\* 1414: fs::read_dir(src)?
CdrReadDir(o) ==
    IF OsFails(o) \/ ~ReadDirOk(o.f, Top(o).src) THEN Fail(Called(o), ErrOs)
    ELSE [Called(o) EXCEPT !.pc = "entry",
                           !.stack[Len(o.stack)].entries = ListDir(o.f, Top(o).src)]

\* The loop that starts over on the directory it has finished.
CdrEntry_NeverReturns(o) ==
    IF Top(o).entries = << >>
    THEN IF Len(o.stack) = 1
         THEN o
         ELSE [o EXCEPT !.stack = SubSeq(o.stack, 1, Len(o.stack) - 1)]
    ELSE LET e == Head(Top(o).entries)
             to == Join(Top(o).dest, FileName(e))
             o1 == [o EXCEPT !.stack[Len(o.stack)].entries = Tail(@)] IN
         IF ~LExists(o.f, e) THEN Fail(o1, ErrOs)
         ELSE IF o.f[e].kind = "dir"
         THEN [o1 EXCEPT !.pc = "mkdir",
                         !.stack = Append(@, [src |-> e, dest |-> to, entries |-> << >>])]
         ELSE LET c == CopyFile(o1, e, to) IN
              IF OsFails(o1) \/ ~c.ok THEN Fail(Called(o1), ErrOs)
              ELSE Logged([Called(o1) EXCEPT !.f = c.f], "copy")

\* 1414-1426: one turn of the loop, or the return of this frame.
CdrEntry(o) ==
    IF Top(o).entries = << >>
    THEN IF Len(o.stack) = 1
         THEN [o EXCEPT !.stack = << >>, !.pc = "delete"]
         ELSE [o EXCEPT !.stack = SubSeq(o.stack, 1, Len(o.stack) - 1)]
    ELSE LET e == Head(Top(o).entries)
             to == Join(Top(o).dest, FileName(e))
             o1 == [o EXCEPT !.stack[Len(o.stack)].entries = Tail(@)] IN
         IF ~LExists(o.f, e) THEN Fail(o1, ErrOs)
         ELSE IF o.f[e].kind = "dir"
         THEN [o1 EXCEPT !.pc = "mkdir",
                         !.stack = Append(@, [src |-> e, dest |-> to, entries |-> << >>])]
         ELSE LET c == CopyFile(o1, e, to) IN
              IF OsFails(o1) \/ ~c.ok THEN Fail(Called(o1), ErrOs)
              ELSE Logged([Called(o1) EXCEPT !.f = c.f], "copy")

\* 1404-1408
DeleteSource(o) ==
    IF ~o.is_cut THEN Succeed(o)
    ELSE LET d == DeletePath(o.f, o.src, OsFails(o)) IN
         IF ~d.ok THEN Fail(Logged(Called(o), "delete failed"), ErrOs)
         ELSE Succeed(Logged([Called(o) EXCEPT !.f = d.f], "delete"))

StepCall(o) ==
    CASE o.pc = "check_dest"   -> CheckDest(o)
      [] o.pc = "check_src"    -> CheckSrc(o)
      [] o.pc = "check_nested" -> CheckNested(o)
      [] o.pc = "check_len"    -> CheckLen(o)
      [] o.pc = "rename"       -> TryRename(o)
      [] o.pc = "meta"         -> CopyTop(o)
      [] o.pc = "mkdir"        -> CdrCreate(o)
      [] o.pc = "read_dir"     -> CdrReadDir(o)
      [] o.pc = "entry"        -> CdrEntry(o)
      [] o.pc = "delete"       -> DeleteSource(o)
      [] OTHER                 -> o

RECURSIVE RunCall(_)
RunCall(o) == IF o.pc = "done" THEN o ELSE RunCall(StepCall(o))

\* copy_or_move(src, dest_dir, is_cut) run to its return.
CopyOrMove(f, src, dest_dir, is_cut, env) == RunCall(NewCall(f, src, dest_dir, is_cut, env))

(***************************************************************************)
(* find_node_by_path (1430-1440) and the paths a displayed tree offers.    *)
(***************************************************************************)
RECURSIVE FindNodeByPath(_, _)
RECURSIVE FindInChildren(_, _)
FindNodeByPath(node, path) ==
    IF node.path = path THEN Some(node) ELSE FindInChildren(node.children, path)

FindInChildren_HeadOnly(children, path) ==
    IF children = << >> THEN None ELSE FindNodeByPath(Head(children), path)

FindInChildren(children, path) ==
    IF children = << >> THEN None
    ELSE LET found == FindNodeByPath(Head(children), path) IN
         IF IsSome(found) THEN found ELSE FindInChildren(Tail(children), path)

RECURSIVE NodePaths(_)
NodePaths(node) ==
    {node.path} \cup UNION {NodePaths(node.children[i]) : i \in 1..Len(node.children)}

\* 632-636
GetSelectedNode(s) ==
    IF IsSome(s.root_node) /\ IsSome(s.selected_node_path)
    THEN FindNodeByPath(Unwrap(s.root_node), Unwrap(s.selected_node_path))
    ELSE None

Ev(type, arg) == [type |-> type, arg |-> arg, env |-> NoEnv]
EvEnv(type, arg, env) == [type |-> type, arg |-> arg, env |-> env]

\* 380-393: the view card.
ViewCard(s, ev) ==
    IF ev.type = "view" THEN [s EXCEPT !.view_mode = ev.arg] ELSE s

\* 395-447: the selected element card and the clipboard card.
SelectionCards(s, ev) ==
    IF ev.type = "left_delete" /\ IsSome(GetSelectedNode(s))
    THEN [s EXCEPT !.pending_delete = Some(Unwrap(GetSelectedNode(s)).path)]
    ELSE IF ev.type = "clear_clipboard" /\ IsSome(s.clipboard_path)
    THEN [s EXCEPT !.clipboard_path = None, !.clipboard_is_cut = FALSE]
    ELSE s

\* 221-458
DrawLeftPanel(s, ev) ==
    SelectionCards(ViewCard(ActionsCard(ScanModeCard(s, ev), ev), ev), ev)

\* draw_node_recursive (741-908): a click or a context-menu entry on the
\* row of the node with path ev.arg.
DrawNodeRecursive(s, ev) ==
    LET found == FindNodeByPath(Unwrap(s.root_node), ev.arg) IN
    IF ev.type \notin {"select", "copy", "cut", "paste_here", "delete_menu"}
       \/ ~IsSome(found) THEN s
    ELSE LET node == Unwrap(found) IN
    CASE ev.type = "select" -> [s EXCEPT !.selected_node_path = Some(node.path)]
      [] ev.type = "copy" ->
            [s EXCEPT !.clipboard_path = Some(node.path), !.clipboard_is_cut = FALSE]
      [] ev.type = "cut" ->
            [s EXCEPT !.clipboard_path = Some(node.path), !.clipboard_is_cut = TRUE]
      [] ev.type = "paste_here" ->
            IF ~IsSome(s.clipboard_path) THEN s
            ELSE [s EXCEPT !.pending_paste_dest =
                              IF node.is_dir THEN Some(node.path) ELSE Parent(node.path)]
      [] ev.type = "delete_menu" -> [s EXCEPT !.pending_delete = Some(node.path)]

(***************************************************************************)
(* The treemap (main.rs 911-1186).  The code computes in f32; here a       *)
(* coordinate is a whole number of 1/Unit of a point, and a product or a   *)
(* quotient is rounded to the nearest such number.                         *)
(***************************************************************************)
Unit        == 100      \* coordinates are multiples of 1/Unit point
CanvasSide  == 200      \* the side of the painter's square, in points
MinSide     == 2        \* a rectangle thinner than this is not laid out
MapMaxDepth == 3        \* children are laid out while depth < 3
ShrinkBy    == 1        \* r.shrink(1.0)

Min(a, b) == IF a < b THEN a ELSE b
Max(a, b) == IF a > b THEN a ELSE b

Rect(x1, y1, x2, y2) == [x1 |-> x1, y1 |-> y1, x2 |-> x2, y2 |-> y2]
Width(r)  == r.x2 - r.x1
Height(r) == r.y2 - r.y1
Area(r)   == Width(r) * Height(r)
Shrink_None(r) == r

Shrink(r) ==
    Rect(r.x1 + ShrinkBy * Unit, r.y1 + ShrinkBy * Unit,
         r.x2 - ShrinkBy * Unit, r.y2 - ShrinkBy * Unit)
\* egui::Rect::contains: the edges belong to the rectangle.
Contains(r, pos) ==
    r.x1 <= pos[1] /\ pos[1] <= r.x2 /\ r.y1 <= pos[2] /\ pos[2] <= r.y2

\* 911-917 and 1159-1165
Hit(r, node) ==
    [rect |-> r, path |-> node.path, name |-> node.name, size |-> node.size,
     is_dir |-> node.is_dir]

\* 1086, 1091 and 1101: rect.width() * fraction, or rect.height() * fraction.
Share(rect, horizontal, size, total) ==
    (2 * (IF horizontal THEN Width(rect) ELSE Height(rect)) * size + total) \div (2 * total)

ChildRect_Unclamped(rect, horizontal, offset, span) ==
    IF horizontal
    THEN Rect(offset, rect.y1, offset + span, rect.y2)
    ELSE Rect(rect.x1, offset, rect.x2, offset + span)

\* 1090-1110: the rectangle of a node, its far edge clamped to that of rect.
ChildRect(rect, horizontal, offset, span) ==
    IF horizontal
    THEN Rect(offset, rect.y1, Min(offset + span, rect.x2), rect.y2)
    ELSE Rect(rect.x1, offset, rect.x2, Min(offset + span, rect.y2))

\* 1111-1113: a rectangle too small to draw, skipped without a hit.
TooSmall_Never(r) == FALSE

TooSmall(r) == Width(r) < MinSide * Unit \/ Height(r) < MinSide * Unit

\* 1167: the layout goes on into the children of a node.
Recurses_NoCap(node, depth) == node.children /= << >>

Recurses(node, depth) == node.children /= << >> /\ depth < MapMaxDepth

\* 1064-1186: the hits in the order they are pushed, a node before its
\* children, the children before the next sibling.
RECURSIVE LayoutFrom(_, _, _, _, _, _)
RECURSIVE LayoutTreemapRect(_, _, _, _, _)
LayoutFrom(rect, horizontal, nodes, offset, total, depth) ==
    IF nodes = << >> THEN << >>
    ELSE LET node == Head(nodes)
             span == Share(rect, horizontal, node.size, total)
             r == ChildRect(rect, horizontal, offset, span)
         IN IF node.size = 0
            THEN LayoutFrom(rect, horizontal, Tail(nodes), offset, total, depth)
            ELSE IF TooSmall(r)
            THEN LayoutFrom(rect, horizontal, Tail(nodes), offset + span, total, depth)
            ELSE <<Hit(r, node)>>
                 \o (IF Recurses(node, depth)
                     THEN LayoutTreemapRect(Shrink(r), ~horizontal, node.children,
                                            Max(SumSize(node.children), 1), depth + 1)
                     ELSE << >>)
                 \o LayoutFrom(rect, horizontal, Tail(nodes), offset + span, total, depth)
LayoutTreemapRect(rect, horizontal, nodes, total, depth) ==
    IF nodes = << >> \/ Width(rect) <= MinSide * Unit \/ Height(rect) <= MinSide * Unit
    THEN << >>
    ELSE LayoutFrom(rect, horizontal, nodes,
                    IF horizontal THEN rect.x1 ELSE rect.y1, total, depth)

\* 929-959: the painter's rectangle and the hits of the tree on display.
Canvas == Rect(0, 0, CanvasSide * Unit, CanvasSide * Unit)
TreemapHits(root) ==
    LayoutTreemapRect(Canvas, TRUE, root.children,
                      Max(SumSize(root.children), 1), 0)

\* 964-969, 973-994 and 1000-1001: the first hit of the list that contains
\* the pointer.
RECURSIVE FirstHit(_, _)
FirstHit(hits, pos) ==
    IF hits = << >> THEN None
    ELSE IF Contains(Head(hits).rect, pos) THEN Some(Head(hits))
    ELSE FirstHit(Tail(hits), pos)

MapEvents == {"map_click", "map_props", "map_copy", "map_cut", "map_paste", "map_delete"}

\* 961-1060: what the click or the context-menu entry does to the hit found.
OnHit(s, ev, hit) ==
    CASE ev.type \in {"map_click", "map_props"} ->
            [s EXCEPT !.selected_node_path = Some(hit.path)]
      [] ev.type = "map_copy" ->
            [s EXCEPT !.clipboard_path = Some(hit.path), !.clipboard_is_cut = FALSE]
      [] ev.type = "map_cut" ->
            [s EXCEPT !.clipboard_path = Some(hit.path), !.clipboard_is_cut = TRUE]
      [] ev.type = "map_paste" ->
            IF ~IsSome(s.clipboard_path) THEN s
            ELSE [s EXCEPT !.pending_paste_dest =
                              IF hit.is_dir THEN Some(hit.path) ELSE Parent(hit.path)]
      [] ev.type = "map_delete" -> [s EXCEPT !.pending_delete = Some(hit.path)]

\* History: the last interaction with the treemap.
MapEvent(s, ev) ==
    [s EXCEPT !.hist = [s.hist EXCEPT !.map_event = Some([pos |-> ev.arg, type |-> ev.type])]]

OnFound(s, ev, found) ==
    IF IsSome(found) THEN OnHit(s, ev, Unwrap(found)) ELSE s

\* 920-1061: a left click or a context-menu entry with the pointer at ev.arg.
DrawTreemap(s, ev) ==
    IF ev.type \notin MapEvents THEN s
    ELSE OnFound(MapEvent(s, ev), ev, FirstHit(TreemapHits(Unwrap(s.root_node)), ev.arg))

\* 460-545
DrawCentralPanel(s, ev) ==
    IF ~IsSome(s.root_node) THEN s
    ELSE IF s.view_mode = "Tree" THEN DrawNodeRecursive(s, ev)
    ELSE DrawTreemap(s, ev)

\* delete_path or copy_or_move has run on the filesystem, and succeeded or not.
\* History: whether a scan was active, and how the call of this frame ended.
Mutated(s, f, ok) ==
    [s EXCEPT !.fs = f,
              !.hist = [s.hist EXCEPT !.mutated_scanning = @ \/ s.is_scanning,
                                      !.mutation = Some(ok)]]

\* 547-609
DrawDeleteWindow(s, ev) ==
    IF ~IsSome(s.pending_delete) THEN s
    ELSE IF ev.type = "delete_cancel" THEN [s EXCEPT !.pending_delete = None]
    ELSE IF ev.type = "delete_confirm"
    THEN LET path == Unwrap(s.pending_delete)
             d == DeletePath(s.fs, path, ev.env.fail_at = 1)
             s1 == IF d.ok
                   THEN LET s2 == [Mutated(s, d.f, TRUE) EXCEPT !.status = <<"Supprime", path>>] IN
                        IF IsSome(s2.root_path)
                        THEN StartScan(s2, Unwrap(s2.root_path)) ELSE s2
                   ELSE [Mutated(s, d.f, FALSE) EXCEPT !.status = <<"Erreur suppression">>]
         IN [s1 EXCEPT !.pending_delete = None]
    ELSE s

HandlePaste_NoRescan(s, dest_dir, env) ==
    IF ~IsSome(s.clipboard_path)
    THEN [s EXCEPT !.status = <<"Presse-papier vide, rien a coller.">>]
    ELSE LET is_cut == s.clipboard_is_cut
             r == CopyOrMove(s.fs, Unwrap(s.clipboard_path), dest_dir, is_cut, env)
             s1 == Mutated(s, r.f, r.result = Some("Ok")) IN
         IF r.result = Some("Ok")
         THEN LET s2 == IF is_cut
                        THEN [s1 EXCEPT !.clipboard_path = None,
                                        !.clipboard_is_cut = FALSE,
                                        !.status = <<"Deplace vers", dest_dir>>]
                        ELSE [s1 EXCEPT !.status = <<"Copie vers", dest_dir>>]
              IN s2
         ELSE [s1 EXCEPT !.status = <<"Erreur copie/deplacement", Unwrap(r.result)>>]

\* 638-675
HandlePaste(s, dest_dir, env) ==
    IF ~IsSome(s.clipboard_path)
    THEN [s EXCEPT !.status = <<"Presse-papier vide, rien a coller.">>]
    ELSE LET is_cut == s.clipboard_is_cut
             r == CopyOrMove(s.fs, Unwrap(s.clipboard_path), dest_dir, is_cut, env)
             s1 == Mutated(s, r.f, r.result = Some("Ok")) IN
         IF r.result = Some("Ok")
         THEN LET s2 == IF is_cut
                        THEN [s1 EXCEPT !.clipboard_path = None,
                                        !.clipboard_is_cut = FALSE,
                                        !.status = <<"Deplace vers", dest_dir>>]
                        ELSE [s1 EXCEPT !.status = <<"Copie vers", dest_dir>>]
              IN IF IsSome(s2.root_path) THEN StartScan(s2, Unwrap(s2.root_path)) ELSE s2
         ELSE [s1 EXCEPT !.status = <<"Erreur copie/deplacement", Unwrap(r.result)>>]

\* 713-716
DeferredPaste(s, ev) ==
    IF IsSome(s.pending_paste_dest)
    THEN HandlePaste([s EXCEPT !.pending_paste_dest = None],
                     Unwrap(s.pending_paste_dest), ev.env)
    ELSE s

\* History: no mutation has been called in this frame yet.
BeginFrame(s) == [s EXCEPT !.hist = [s.hist EXCEPT !.mutation = None]]

\* 679-717
Update(s, ev) ==
    DeferredPaste(
        DrawDeleteWindow(
            DrawCentralPanel(DrawLeftPanel(PollReceiver(BeginFrame(s)), ev), ev), ev), ev)

Frame(ev) ==
    \E s \in {Update(Cur, ev)} :
    /\ s.scan_count <= MaxScans
    /\ fs' = s.fs
    /\ root_path' = s.root_path
    /\ root_node' = s.root_node
    /\ is_scanning' = s.is_scanning
    /\ status' = s.status
    /\ scan_receiver' = s.scan_receiver
    /\ cancel_flag' = s.cancel_flag
    /\ scan_mode' = s.scan_mode
    /\ view_mode' = s.view_mode
    /\ selected_root_index' = s.selected_root_index
    /\ selected_node_path' = s.selected_node_path
    /\ pending_delete' = s.pending_delete
    /\ clipboard_path' = s.clipboard_path
    /\ clipboard_is_cut' = s.clipboard_is_cut
    /\ scan_count' = s.scan_count
    /\ flag' = s.flag
    /\ chan' = s.chan
    /\ w_id' = s.w_id
    /\ w_pc' = s.w_pc
    /\ w_root' = s.w_root
    /\ w_result' = s.w_result
    /\ slot' = s.slot
    /\ res' = s.res
    /\ w_obs' = s.w_obs
    /\ hist' = s.hist
    /\ UNCHANGED call

\* What the frame sees when the widgets are laid out.
Polled == PollReceiver(Cur)

\* A frame in which the result of the scan arrives, nothing clicked.
FramePoll ==
    /\ Polled /= Cur
    /\ Frame(Ev("none", << >>))

FrameScanMode ==
    \E m \in {"Folder", "Drive"} : m /= scan_mode /\ Frame(Ev("mode", m))

FramePickFolder ==
    /\ scan_mode = "Folder" /\ ~Polled.is_scanning
    /\ \E p \in PickDirs : Frame(Ev("pick", p))

FrameClickScan ==
    /\ CanScan(ScanModeCard(Polled, Ev("scan", << >>)))
    /\ Frame(Ev("scan", << >>))

FrameClickStop ==
    /\ CanStop(Polled)
    /\ Frame(Ev("stop", << >>))

(***************************************************************************)
(* The filesystems a scan is checked on, of at most MaxEntries entries     *)
(* below the root: a.txt is absent, a file or an entry of another type,    *)
(* b.txt is absent or a file, sub is absent, an unreadable directory or a  *)
(* directory with contents of the same shape; besides these, a root that   *)
(* is missing, a file, or unreadable.                                      *)
(***************************************************************************)
RECURSIVE DirContents(_, _)
DirContents(p, d) ==
    LET a == Join(p, "a.txt")
        b == Join(p, "b.txt")
        c == Join(p, "sub")
        As == {<< >>, a :> FileEntry(10), a :> OtherEntry}
        Bs == {<< >>, b :> FileEntry(10), b :> FileEntry(20)}
        Cs == {<< >>, c :> DirEntry(FALSE)}
              \cup (IF d = 0 THEN {}
                    ELSE {(c :> DirEntry(TRUE)) @@ x : x \in DirContents(c, d - 1)})
    IN {x @@ y @@ z : x \in As, y \in Bs, z \in Cs}

ScanFsSet ==
    {(ScanRoot :> DirEntry(TRUE)) @@ x :
        x \in {y \in DirContents(ScanRoot, MaxDepth) : Cardinality(DOMAIN y) <= MaxEntries}}
    \cup {<< >>, ScanRoot :> FileEntry(10), ScanRoot :> DirEntry(FALSE)}

\* Two filesystems of ScanFsSet: the one of the size scenario, one with a tie.
ExampleFs ==
    (ScanRoot :> DirEntry(TRUE))
    @@ (Join(ScanRoot, "a.txt") :> FileEntry(10))
    @@ (Join(ScanRoot, "sub") :> DirEntry(TRUE))
    @@ (Join(Join(ScanRoot, "sub"), "b.txt") :> FileEntry(20))

TieFs ==
    (ScanRoot :> DirEntry(TRUE))
    @@ (Join(ScanRoot, "a.txt") :> FileEntry(10))
    @@ (Join(ScanRoot, "b.txt") :> FileEntry(10))

(***************************************************************************)
(* Initial state: TreeSizeApp::default (120-143), no worker thread yet.    *)
(***************************************************************************)
\* The tree a scan of p returns when nobody cancels it (1210-1327).
RECURSIVE BuildNode(_, _)
RECURSIVE BuildNodes(_, _)
BuildNode(f, p) ==
    IF IsFile(f, p) THEN Some(NewFile(FileName(p), p, MetadataLen(f, p)))
    ELSE IF IsDir(f, p) THEN Some(NewDir(FileName(p), p, BuildNodes(f, ListDir(f, p))))
    ELSE None
BuildNodes(f, entries) ==
    IF entries = << >> THEN << >>
    ELSE BuildNode(f, Head(entries)) \o BuildNodes(f, Tail(entries))

ScanTree(f, root) == NewDir(FileName(root), root, BuildNodes(f, ListDir(f, root)))

InitRec ==
    [root_path |-> None, root_node |-> None, is_scanning |-> FALSE,
     status |-> <<"Choisis un dossier ou un lecteur puis lance un scan.">>,
     scan_receiver |-> None, cancel_flag |-> None,
     scan_mode |-> "Folder", view_mode |-> "Tree", selected_root_index |-> 0,
     selected_node_path |-> None, pending_delete |-> None,
     clipboard_path |-> None, clipboard_is_cut |-> FALSE,
     pending_paste_dest |-> None,
     scan_count |-> 0, flag |-> << >>, chan |-> << >>,
     w_id |-> 0, w_pc |-> "idle", w_root |-> << >>, w_result |-> None,
     slot |-> << >>, res |-> << >>, w_obs |-> NoObs,
     hist |-> [produced |-> << >>, consumed |-> << >>, shown |-> 0,
               overlap |-> FALSE, orphaned |-> FALSE, mutated_scanning |-> FALSE,
               map_event |-> None, remembered |-> None, mutation |-> None,
               stopped |-> {}]]

\* Everything but the filesystem is as in the record s; no call in progress.
AppIs(s) ==
    /\ root_path = s.root_path
    /\ root_node = s.root_node
    /\ is_scanning = s.is_scanning
    /\ status = s.status
    /\ scan_receiver = s.scan_receiver
    /\ cancel_flag = s.cancel_flag
    /\ scan_mode = s.scan_mode
    /\ view_mode = s.view_mode
    /\ selected_root_index = s.selected_root_index
    /\ selected_node_path = s.selected_node_path
    /\ pending_delete = s.pending_delete
    /\ clipboard_path = s.clipboard_path
    /\ clipboard_is_cut = s.clipboard_is_cut
    /\ scan_count = s.scan_count
    /\ flag = s.flag
    /\ chan = s.chan
    /\ w_id = s.w_id
    /\ w_pc = s.w_pc
    /\ w_root = s.w_root
    /\ w_result = s.w_result
    /\ slot = s.slot
    /\ res = s.res
    /\ w_obs = s.w_obs
    /\ call = IdleCall
    /\ hist = s.hist

InitApp == AppIs(InitRec)

(***************************************************************************)
(* SpecScan: one folder is picked and scanned, on every filesystem of      *)
(* ScanFsSet, with the stop button pressed at any moment.                  *)
(***************************************************************************)
InitScan == fs \in ScanFsSet /\ InitApp

ParItemCheckStep   == \E p \in DOMAIN slot : ParItemCheck(p)
BuildNodeEnterStep == \E p \in DOMAIN slot : BuildNodeEnter(p)
BuildNodeCollectStep == \E p \in DOMAIN slot : BuildNodeCollect(p)

ScanOnce == scan_count < ScanRuns /\ FrameClickScan

NextScan ==
    \/ FramePickFolder
    \/ ScanOnce
    \/ FrameClickStop
    \/ FramePoll
    \/ ScanCheckCancel
    \/ ScanCheckExists
    \/ ScanCheckIsDir
    \/ ScanReadRoot
    \/ ParItemCheckStep
    \/ BuildNodeEnterStep
    \/ BuildNodeCollectStep
    \/ ScanFinalCheck
    \/ ScanBuildRoot
    \/ WorkerSend

SpecScan == InitScan /\ [][NextScan]_vars

(***************************************************************************)
(* SpecFs: one call of copy_or_move, one OS call per step, or one call of  *)
(* delete_path, on every filesystem of MutFsSet, for every source and      *)
(* destination of the sets below and every environment.                    *)
(***************************************************************************)
R == ScanRoot
MutFsSet ==
    LET a == Join(R, "a.txt")
        s == Join(R, "sub")
        d == Join(R, "dst")
        l == Join(R, "ln")
        As == {<< >>, a :> FileEntry(10)}
        Ss == {<< >>,
               s :> DirEntry(TRUE),
               (s :> DirEntry(TRUE)) @@ (Join(s, "a.txt") :> FileEntry(10)),
               (s :> DirEntry(TRUE)) @@ (Join(s, "a.txt") :> FileEntry(10))
                  @@ (Join(s, "sub") :> DirEntry(TRUE))}
        Ds == {<< >>,
               d :> DirEntry(TRUE),
               (d :> DirEntry(TRUE)) @@ (Join(d, "sub") :> DirEntry(TRUE))
                  @@ (Join(Join(d, "sub"), "b.txt") :> FileEntry(20)),
               (d :> DirEntry(TRUE)) @@ (Join(d, "a.txt") :> FileEntry(20))}
        Ls == {<< >>, l :> LinkEntry(a), l :> LinkEntry(s)}
    IN {(R :> DirEntry(TRUE)) @@ w @@ x @@ y @@ z : w \in As, x \in Ss, y \in Ds, z \in Ls}

CallSrcs  == {Join(R, "a.txt"), Join(R, "sub"), Join(R, "ln"),
              Join(Join(R, "sub"), "a.txt"), Join(R, "b.txt")}
CallDests == {Join(R, "dst"), R, Join(R, "sub"), Join(Join(R, "sub"), "sub"),
              Join(R, "a.txt")}
Envs == [xdev : BOOLEAN, fail_at : 0..MaxFailAt, windows : BOOLEAN, trunc : BOOLEAN]

InitFs == fs \in MutFsSet /\ InitApp

\* The call is made: copy_or_move(src, dest_dir, is_cut).
CallCopyOrMove ==
    /\ call.pc = "idle"
    /\ \E src \in CallSrcs, dest_dir \in CallDests, is_cut \in BOOLEAN, env \in Envs :
          call' = NewCall(fs, src, dest_dir, is_cut, env)
    /\ UNCHANGED <<fs, appVars, chanVars, workVars, hist>>

\* delete_path(path), with the OS refusing it or not.
DeleteTargets == {Join(R, "a.txt"), Join(R, "sub"), Join(R, "ln"), Join(R, "b.txt")}
DeleteCall(f, path, os_fails) ==
    [IdleCall EXCEPT !.pc = "deleted", !.src = path, !.f0 = f,
                     !.fail_at = IF os_fails THEN 1 ELSE 0,
                     !.f = DeletePath(f, path, os_fails).f,
                     !.result = IF DeletePath(f, path, os_fails).ok
                                THEN Some("Ok") ELSE Some(ErrOs)]

CallDeletePath ==
    /\ call.pc = "idle"
    /\ \E path \in DeleteTargets, os_fails \in BOOLEAN :
          /\ call' = DeleteCall(fs, path, os_fails)
          /\ fs' = DeletePath(fs, path, os_fails).f
    /\ UNCHANGED <<appVars, chanVars, workVars, hist>>

\* The call takes its next step; the filesystem is the one it works on.
Advance(o) ==
    /\ call' = o
    /\ fs' = o.f
    /\ UNCHANGED <<appVars, chanVars, workVars, hist>>

CallCheckDest ==
    /\ call.pc = "check_dest"
    /\ Advance(StepCall(call))

CallCheckSrc ==
    /\ call.pc = "check_src"
    /\ Advance(StepCall(call))

CallCheckNested ==
    /\ call.pc = "check_nested"
    /\ Advance(StepCall(call))

CallCheckLen ==
    /\ call.pc = "check_len"
    /\ Advance(StepCall(call))

CallTryRename ==
    /\ call.pc = "rename"
    /\ Advance(StepCall(call))

CallCopyTop ==
    /\ call.pc = "meta"
    /\ Advance(StepCall(call))

CallCdrCreate ==
    /\ call.pc = "mkdir"
    /\ Advance(StepCall(call))

CallCdrReadDir ==
    /\ call.pc = "read_dir"
    /\ Advance(StepCall(call))

CallCdrEntry ==
    /\ call.pc = "entry"
    /\ Advance(StepCall(call))

CallDeleteSource ==
    /\ call.pc = "delete"
    /\ Advance(StepCall(call))

NextFs ==
    \/ CallCopyOrMove
    \/ CallDeletePath
    \/ CallCheckDest
    \/ CallCheckSrc
    \/ CallCheckNested
    \/ CallCheckLen
    \/ CallTryRename
    \/ CallCopyTop
    \/ CallCdrCreate
    \/ CallCdrReadDir
    \/ CallCdrEntry
    \/ CallDeleteSource

SpecFs == InitFs /\ [][NextFs]_vars

(***************************************************************************)
(* Spec: the whole application on the filesystem AppFs.      Every frame   *)
(* is one call of update with one widget clicked, or none; the worker      *)
(* thread takes its steps in between.                                      *)
(***************************************************************************)
SelectNodes == {Join(R, "a.txt")}     \* the nodes the pointer selects,
ClipNodes   == {Join(R, "a.txt")}     \*   copies or cuts,
PasteNodes  == {Join(R, "sub")}       \*   pastes on,
DeleteNodes == {Join(R, "sub")}       \*   deletes from the context menu
FailEnv    == [NoEnv EXCEPT !.fail_at = 1]            \* the first OS call fails
ClickEnvs  == {NoEnv, FailEnv}

AppFs ==
    (R :> DirEntry(TRUE)) @@ (Join(R, "a.txt") :> FileEntry(10))
    @@ (Join(R, "sub") :> DirEntry(TRUE))

Init == fs = AppFs /\ InitApp

\* The nodes on display in this frame.
OnDisplay ==
    IF IsSome(Polled.root_node) /\ Polled.view_mode = "Tree"
    THEN NodePaths(Unwrap(Polled.root_node)) ELSE {}

FrameViewMode ==
    \E m \in {"Tree", "Treemap"} : m /= view_mode /\ Frame(Ev("view", m))

FrameDrive ==
    /\ Polled.scan_mode = "Drive"
    /\ \E i \in 0..(Len(AvailableRoots) - 1) : Frame(Ev("drive", i))

FrameSelect ==
    \E p \in SelectNodes \cap OnDisplay : Frame(Ev("select", p))

FrameCopy ==
    \E p \in ClipNodes \cap OnDisplay : Frame(Ev("copy", p))

FrameCut ==
    \E p \in ClipNodes \cap OnDisplay : Frame(Ev("cut", p))

FramePasteHere ==
    /\ IsSome(Polled.clipboard_path)
    /\ \E p \in PasteNodes \cap OnDisplay, env \in ClickEnvs :
          Frame(EvEnv("paste_here", p, env))

FrameDeleteMenu ==
    \E p \in DeleteNodes \cap OnDisplay : Frame(Ev("delete_menu", p))

FrameLeftDelete ==
    /\ IsSome(GetSelectedNode(Polled))
    /\ Frame(Ev("left_delete", << >>))

FrameClearClipboard ==
    /\ IsSome(Polled.clipboard_path)
    /\ Frame(Ev("clear_clipboard", << >>))

FrameDeleteCancel ==
    /\ IsSome(Polled.pending_delete)
    /\ Frame(Ev("delete_cancel", << >>))

FrameDeleteConfirm ==
    /\ IsSome(Polled.pending_delete)
    /\ \E env \in ClickEnvs : Frame(EvEnv("delete_confirm", << >>, env))

Next ==
    \/ FramePoll
    \/ FrameScanMode
    \/ FramePickFolder
    \/ FrameDrive
    \/ FrameViewMode
    \/ FrameClickScan
    \/ FrameClickStop
    \/ FrameSelect
    \/ FrameCopy
    \/ FrameCut
    \/ FramePasteHere
    \/ FrameDeleteMenu
    \/ FrameLeftDelete
    \/ FrameClearClipboard
    \/ FrameDeleteCancel
    \/ FrameDeleteConfirm
    \/ ScanCheckCancel
    \/ ScanCheckExists
    \/ ScanCheckIsDir
    \/ ScanReadRoot
    \/ ParItemCheckStep
    \/ BuildNodeEnterStep
    \/ BuildNodeCollectStep
    \/ ScanFinalCheck
    \/ ScanBuildRoot
    \/ WorkerSend

Spec == Init /\ [][Next]_vars

(***************************************************************************)
(* SpecMap: the treemap of a finished scan.  The initial states are the    *)
(* states the application is in once the folder ScanRoot of a filesystem   *)
(* of MapFsSet has been picked and scanned and the result received; the    *)
(* pointer then clicks, or opens the context menu, at the positions of     *)
(* MapPositions.                                                           *)
(***************************************************************************)
NestedFs ==
    (R :> DirEntry(TRUE))
    @@ (Join(R, "sub") :> DirEntry(TRUE))
    @@ (Join(Join(R, "sub"), "a.txt") :> FileEntry(20))
    @@ (Join(Join(R, "sub"), "sub") :> DirEntry(TRUE))
    @@ (Join(Join(Join(R, "sub"), "sub"), "b.txt") :> FileEntry(20))
    @@ (Join(R, "b.txt") :> FileEntry(10))

\* Three children of one size, and a file that is a two-hundredth of the whole.
ThirdsFs ==
    (R :> DirEntry(TRUE))
    @@ (Join(R, "a.txt") :> FileEntry(10))
    @@ (Join(R, "b.txt") :> FileEntry(10))
    @@ (Join(R, "sub") :> DirEntry(TRUE))
    @@ (Join(Join(R, "sub"), "a.txt") :> FileEntry(10))

SliverFs ==
    (R :> DirEntry(TRUE))
    @@ (Join(R, "a.txt") :> FileEntry(1))
    @@ (Join(R, "b.txt") :> FileEntry(199))

\* Five directories one inside the other and a file in the last.
DeepFs ==
    (R :> DirEntry(TRUE))
    @@ (Join(R, "sub") :> DirEntry(TRUE))
    @@ (Join(R, "b.txt") :> FileEntry(10))
    @@ (<<R[1], "sub", "sub">> :> DirEntry(TRUE))
    @@ (<<R[1], "sub", "sub", "sub">> :> DirEntry(TRUE))
    @@ (<<R[1], "sub", "sub", "sub", "sub">> :> DirEntry(TRUE))
    @@ (<<R[1], "sub", "sub", "sub", "sub", "a.txt">> :> FileEntry(10))
    @@ (<<R[1], "sub", "sub", "sub", "sub", "sub">> :> DirEntry(TRUE))
    @@ (<<R[1], "sub", "sub", "sub", "sub", "sub", "a.txt">> :> FileEntry(20))

\* Empty files and an empty directory among files with bytes, and entries
\* of less than a hundredth of their level.
ZeroFs ==
    (R :> DirEntry(TRUE))
    @@ (Join(R, "a.txt") :> FileEntry(0))
    @@ (Join(R, "b.txt") :> FileEntry(100))
    @@ (Join(R, "sub") :> DirEntry(TRUE))
    @@ (<<R[1], "sub", "a.txt">> :> FileEntry(100))
    @@ (<<R[1], "sub", "b.txt">> :> FileEntry(1))
    @@ (<<R[1], "sub", "dst">> :> DirEntry(TRUE))
    @@ (Join(R, "dst") :> DirEntry(TRUE))
    @@ (<<R[1], "dst", "a.txt">> :> FileEntry(1))

MapFsSet == {ExampleFs, TieFs, NestedFs, ThirdsFs, SliverFs, DeepFs, ZeroFs}

MapXs == {1, 50, 133, 150}
MapYs == {1, 100}
MapPositions == {<<x * Unit, y * Unit>> : x \in MapXs, y \in MapYs}

\* The worker of the scan started in s has run to its end on f, uncancelled.
WorkerRan(s, f) ==
    [s EXCEPT !.w_pc = "sent",
              !.chan = <<ScanOk(s.w_root, ScanTree(f, s.w_root))>>,
              !.hist = [s.hist EXCEPT !.produced[s.w_id] = 1]]

AfterScan(f) ==
    PollReceiver(WorkerRan(
        StartScan(ScanModeCard([InitRec EXCEPT !.fs = f], Ev("pick", R)), R), f))

InitMap == fs \in MapFsSet /\ AppIs(AfterScan(fs))

FrameTreemap ==
    /\ IsSome(Polled.root_node) /\ Polled.view_mode = "Treemap"
    /\ \E pos \in MapPositions, type \in MapEvents : Frame(Ev(type, pos))

NextMap ==
    \/ FrameViewMode
    \/ FrameTreemap

SpecMap == InitMap /\ [][NextMap]_vars

(***************************************************************************)
(* SpecLive: Spec with the scheduling the code relies on: the worker       *)
(* thread keeps running until it has sent its result, and update keeps     *)
(* being called while is_scanning (request_repaint, main.rs 680-682).      *)
(***************************************************************************)
\* One step of the worker thread, whichever it is.
WorkerStep ==
    \/ ScanCheckCancel
    \/ ScanCheckExists
    \/ ScanCheckIsDir
    \/ ScanReadRoot
    \/ ParItemCheckStep
    \/ BuildNodeEnterStep
    \/ BuildNodeCollectStep
    \/ ScanFinalCheck
    \/ ScanBuildRoot
    \/ WorkerSend

SpecLive ==
    /\ Spec
    /\ WF_vars(FramePoll)
    /\ WF_vars(WorkerStep)

\* One scan over any of the scanned filesystems, with the same scheduling.
SpecScanLive ==
    /\ SpecScan
    /\ WF_vars(FramePoll)
    /\ WF_vars(WorkerStep)

(***************************************************************************)
(* What the scan worker returned, and the Node invariants.                 *)
(***************************************************************************)
Returned    == w_pc = "ret"
Result      == Unwrap(w_result)
IsCancelled == Result = ScanError(w_root, ErrCancelled)
HasTree     == Returned /\ IsSome(Result.root_node)
Displayed   == hist.shown = w_id /\ w_id > 0

\* The flag was found set by one of the worker's own loads of it.
SawCancel == w_obs.first \/ w_obs.dropped \/ w_obs.final

RECURSIVE WellAggregated(_)
WellAggregated(node) ==
    IF node.is_dir
    THEN /\ node.size = SumSize(node.children)
         /\ node.file_count = SumFileCount(node.children)
         /\ \A i \in 1..Len(node.children) : WellAggregated(node.children[i])
    ELSE node.file_count = 1 /\ node.children = << >>

\* The position of path p in the enumeration of its parent directory.
EnumIndex(p) == CHOOSE i \in 1..Len(NameOrder) : NameOrder[i] = FileName(p)

RECURSIVE WellOrdered(_)
WellOrdered(node) ==
    /\ \A i, j \in 1..Len(node.children) :
          i < j =>
             /\ node.children[i].size >= node.children[j].size
             /\ node.children[i].size = node.children[j].size
                   => EnumIndex(node.children[i].path) < EnumIndex(node.children[j].path)
    /\ \A i \in 1..Len(node.children) : WellOrdered(node.children[i])

RECURSIVE HasTie(_)
HasTie(node) ==
    \/ \E i, j \in 1..Len(node.children) :
          i < j /\ node.children[i].size = node.children[j].size
    \/ \E i \in 1..Len(node.children) : HasTie(node.children[i])

(***************************************************************************)
(* C1 as stated: whenever the cancel flag is set before the scan returns   *)
(* its ScanResult, the result is Cancelled and no tree of that scan is     *)
(* displayed.                                                              *)
(***************************************************************************)
C1_AsStated ==
    /\ (Returned /\ w_obs.at_return) => Result.root_node = None
    /\ (w_pc \in {"ret", "sent"} /\ w_obs.at_return) => ~Displayed

(***************************************************************************)
(* C1, amended: when one of the scan's own loads of the cancel flag (the   *)
(* first check, the check of a par_iter item or of build_node, the final   *)
(* check) finds it set, the ScanResult is Cancelled, with an error and no  *)
(* root_node, and the interactive side never displays a tree for that      *)
(* scan; a scan that returns a tree passed its final check with the flag   *)
(* clear and lost no item to cancellation: it is the complete tree.        *)
(***************************************************************************)
C1_CancelSeenYieldsNoTree ==
    /\ (Returned /\ SawCancel) =>
          /\ IsCancelled
          /\ Result.root_node = None /\ IsSome(Result.error)
    /\ HasTree => (~SawCancel /\ Result.root_node = Some(ScanTree(fs, w_root)))
    /\ SawCancel => ~Displayed
    /\ (SawCancel /\ chan /= << >>) => Head(chan) = ScanError(w_root, ErrCancelled)

C1_Witness ==
    /\ w_pc = "sent" /\ ~w_obs.first /\ w_obs.dropped /\ w_obs.final
    /\ hist.produced[w_id] = 1
    /\ hist.consumed[w_id] = 1
    /\ root_node = None
    /\ status = <<ErrCancelled>>

(***************************************************************************)
(* C2: in every tree a successful scan returns, and in the tree displayed, *)
(* every directory Node has size and file_count equal to the sums over its *)
(* children, at every depth, and every file Node has file_count 1 and no   *)
(* children; r = {a.txt: 10, sub/{b.txt: 20}} gives size 30, file_count 2. *)
(***************************************************************************)
C2_SizesAggregate ==
    /\ HasTree => WellAggregated(Unwrap(Result.root_node))
    /\ IsSome(root_node) => WellAggregated(Unwrap(root_node))
    /\ (HasTree /\ fs = ExampleFs /\ w_root = ScanRoot) =>
          /\ Unwrap(Result.root_node).size = 30
          /\ Unwrap(Result.root_node).file_count = 2

C2_Witness ==
    /\ fs = ExampleFs /\ w_root = ScanRoot
    /\ IsSome(root_node)
    /\ Unwrap(root_node).size = 30
    /\ Unwrap(root_node).file_count = 2
    /\ Len(Unwrap(root_node).children) = 2
    /\ Unwrap(root_node).children[1].is_dir
    /\ Unwrap(root_node).children[1].size = 20
    /\ Unwrap(root_node).children[1].children[1].size = 20

(***************************************************************************)
(* C3: in every tree a successful scan returns, the children of every      *)
(* directory Node are in non-increasing order of size, and children of     *)
(* equal size are in the order the directory enumeration returned them,    *)
(* whatever the order the parallel items finished in.                      *)
(***************************************************************************)
C3_ChildrenSorted ==
    /\ HasTree => WellOrdered(Unwrap(Result.root_node))
    /\ IsSome(root_node) => WellOrdered(Unwrap(root_node))

C3_Witness ==
    /\ fs = TieFs /\ w_root = ScanRoot
    /\ HasTree
    /\ w_obs.overtaken
    /\ HasTie(Unwrap(Result.root_node))
    /\ Unwrap(Result.root_node).children[1].path = Join(ScanRoot, "a.txt")
    /\ Unwrap(Result.root_node).children[2].path = Join(ScanRoot, "b.txt")

(***************************************************************************)
(* C10: scan_directory_parallel reports the first failing check, in the    *)
(* order cancel flag set (Cancelled, even when the root does not exist),   *)
(* root missing (NotFound), root not a directory (NotADirectory), listing  *)
(* of the root fails (IoError); in each case there is no root_node and no  *)
(* child was visited.                                                      *)
(***************************************************************************)
ValidationError ==
    IF w_obs.first THEN Some(ErrCancelled)
    ELSE IF ~Exists(fs, w_root) THEN Some(ErrNotFound)
    ELSE IF ~IsDir(fs, w_root) THEN Some(ErrNotADir)
    ELSE IF ~ReadDirOk(fs, w_root) THEN Some(ErrIo)
    ELSE None

C10_ValidationOrder ==
    (Returned /\ IsSome(ValidationError)) =>
        /\ Result = ScanError(w_root, Unwrap(ValidationError))
        /\ Result.root_node = None
        /\ DOMAIN slot = {} /\ DOMAIN res = {}

C10_Witness ==
    /\ Returned
    /\ w_obs.first /\ ~Exists(fs, w_root)
    /\ Result.error = Some(ErrCancelled)
    /\ DOMAIN slot = {}

(***************************************************************************)
(* What a finished call of copy_or_move left behind.                       *)
(***************************************************************************)
Done     == call.pc = "done"
CallOk   == call.result = Some("Ok")
\* The entries at and below p, by their paths relative to p.
SubTree(f, p) ==
    [q \in {Rebase(x, p, << >>) : x \in {y \in DOMAIN f : StartsWith(y, p)}} |-> f[p \o q]]
InLog(what) == \E i \in 1..Len(call.log) : call.log[i] = what
SelfNestedCall ==
    Done /\ call.is_cut /\ Exists(call.f0, call.src) /\ StartsWith(call.dest_dir, call.src)

(***************************************************************************)
(* C7 as stated: for an existing src, with is_cut and dest_dir equal to    *)
(* src or nested under it, copy_or_move fails with the SelfNestedMove      *)
(* error, changes nothing and attempts no rename, copy or delete.          *)
(***************************************************************************)
C7_AsStated ==
    SelfNestedCall =>
        /\ call.result = Some(ErrSelfNested)
        /\ call.f = call.f0 /\ call.log = << >>

(***************************************************************************)
(* C7, amended: for an existing src, with is_cut and dest_dir equal to src *)
(* or nested under it, copy_or_move fails, changes nothing and attempts no *)
(* rename, copy or delete; the error is SelfNestedMove when dest_dir is an *)
(* existing directory, and InvalidDestination when it is not (so always    *)
(* when src is a file, copy_or_move(src, src, true) included).             *)
(***************************************************************************)
C7_SelfNestedRefused ==
    SelfNestedCall =>
        /\ call.result = IF IsDir(call.f0, call.dest_dir)
                         THEN Some(ErrSelfNested) ELSE Some(ErrInvalidDest)
        /\ call.f = call.f0 /\ call.log = << >> /\ call.calls = 0

C7_Witness ==
    /\ SelfNestedCall
    /\ call.src = Join(R, "sub")
    /\ call.dest_dir = Join(Join(R, "sub"), "sub")
    /\ HasEntries(call.f0, call.dest_dir) \/ HasEntries(call.f0, call.src)
    /\ call.result = Some(ErrSelfNested)
    /\ call.f = call.f0

(***************************************************************************)
(* C8 as stated: when is_cut, the rename fails and every later step        *)
(* succeeds, copy_or_move returns Ok, src is gone and the destination      *)
(* dest_dir/name holds a copy identical to the original src: same type of  *)
(* entry, same descendants, same contents.                                 *)
(***************************************************************************)
C8_AsStated ==
    (Done /\ call.is_cut /\ InLog("rename failed") /\ CallOk) =>
        /\ ~LExists(call.f, call.src)
        /\ SubTree(call.f, DestPath(call)) = SubTree(call.f0, call.src)

(***************************************************************************)
(* C9 as stated: src is deleted only when is_cut and only after the copy   *)
(* succeeded; when a copy step fails an error is returned and the source   *)
(* is complete and unmodified; with is_cut false src is never deleted.     *)
(***************************************************************************)
C9_AsStated ==
    Done =>
        /\ (LExists(call.f0, call.src) /\ ~LExists(call.f, call.src))
              => (call.is_cut /\ CallOk)
        /\ (call.result = Some(ErrOs) /\ ~InLog("delete failed"))
              => SubTree(call.f, call.src) = SubTree(call.f0, call.src)
        /\ ~call.is_cut => (LExists(call.f, call.src) = LExists(call.f0, call.src))

(***************************************************************************)
(* C5: start_scan is never invoked while is_scanning is true, from the     *)
(* scan button, the confirmed delete or the paste handler; no worker is    *)
(* left running with its receiver and cancel flag replaced.                *)
(***************************************************************************)
WorkerRunning == w_pc \notin {"idle", "sent"}

OncePerScan(id) ==
    /\ hist.produced[id] <= 1
    /\ hist.consumed[id] <= hist.produced[id]
    /\ (hist.produced[id] = 1 /\ hist.consumed[id] = 0) =>
          /\ is_scanning /\ scan_receiver = Some(id)
          /\ Len(chan) = 1
    /\ id < scan_count => hist.consumed[id] = 1

HitsAt(hits, pos) == {i \in 1..Len(hits) : Contains(hits[i].rect, pos)}
Deepest(hits, pos) ==
    {hits[i].path : i \in {j \in HitsAt(hits, pos) :
                              \A k \in HitsAt(hits, pos) :
                                  Len(hits[k].path) <= Len(hits[j].path)}}
Chosen ==
    CASE Unwrap(hist.map_event).type \in {"map_click", "map_props"} -> selected_node_path
      [] Unwrap(hist.map_event).type \in {"map_copy", "map_cut"} -> clipboard_path
      [] Unwrap(hist.map_event).type = "map_delete" -> pending_delete
      [] OTHER -> None

C4_AsStated ==
    (/\ IsSome(hist.map_event) /\ IsSome(root_node)
     /\ Unwrap(hist.map_event).type /= "map_paste"
     /\ HitsAt(TreemapHits(Unwrap(root_node)), Unwrap(hist.map_event).pos) /= {})
    => /\ IsSome(Chosen)
       /\ Unwrap(Chosen) \in Deepest(TreemapHits(Unwrap(root_node)),
                                     Unwrap(hist.map_event).pos)

(***************************************************************************)
(* C11: for a root that passes validation and a cancel flag never set, the *)
(* scan succeeds (root_node present, no error) whatever entries below the  *)
(* root are unreadable directories or of an unsupported type, and every    *)
(* file or directory reached through readable directories is in the tree   *)
(* and counted in the root: a failed entry hides nothing but itself and    *)
(* what is below it.                                                       *)
(***************************************************************************)
\* The entries below root that a traversal reaches: files and directories
\* all of whose ancestors up to root can be listed.
Visible(f, root) ==
    {q \in DOMAIN f :
        /\ StartsWith(q, root) /\ q /= root
        /\ f[q].kind \in {"file", "dir"}
        /\ \A k \in Len(root)..(Len(q) - 1) : ReadDirOk(f, SubSeq(q, 1, k))}

RECURSIVE SizeOver(_, _)
SizeOver(f, S) ==
    IF S = {} THEN 0
    ELSE LET q == CHOOSE x \in S : TRUE IN f[q].size + SizeOver(f, S \ {q})

\* Some entry the traversal meets fails: a directory it cannot list or an
\* entry that is neither a file nor a directory.
FailedEntries(f, root) ==
    {q \in DOMAIN f :
        /\ StartsWith(q, root) /\ q /= root
        /\ \A k \in Len(root)..(Len(q) - 1) : ReadDirOk(f, SubSeq(q, 1, k))
        /\ \/ f[q].kind = "other"
           \/ f[q].kind = "dir" /\ ~f[q].readable}

C11_FailuresBelowRootSwallowed ==
    (Returned /\ ~Cancel /\ ReadDirOk(fs, w_root)) =>
        /\ Result.error = None /\ IsSome(Result.root_node)
        /\ NodePaths(Unwrap(Result.root_node)) = {w_root} \cup Visible(fs, w_root)
        /\ Unwrap(Result.root_node).size = SizeOver(fs, Visible(fs, w_root))
        /\ Unwrap(Result.root_node).file_count =
              Cardinality({q \in Visible(fs, w_root) : fs[q].kind = "file"})

\* A failed entry next to a readable file, one level below the root.
C11_Witness ==
    /\ HasTree /\ ~Cancel
    /\ Join(Join(ScanRoot, "sub"), "a.txt") \in FailedEntries(fs, w_root)
    /\ Join(Join(ScanRoot, "sub"), "b.txt") \in NodePaths(Unwrap(Result.root_node))
    /\ Join(ScanRoot, "a.txt") \in FailedEntries(fs, w_root)
    /\ Unwrap(Result.root_node).file_count = 1
    /\ Unwrap(Result.root_node).size = fs[Join(Join(ScanRoot, "sub"), "b.txt")].size

(***************************************************************************)
(* C12 as stated: when a path is selected, a rescan is started and its     *)
(* result is received with a tree that still contains that path, the       *)
(* selected node resolved through find_node_by_path in the new tree is the *)
(* node with that path.  hist.remembered is the selection start_scan       *)
(* found.                                                                  *)
(***************************************************************************)
RescanKeepsPath ==
    /\ is_scanning /\ ~is_scanning'
    /\ IsSome(hist.remembered) /\ IsSome(root_node')
    /\ Unwrap(hist.remembered) \in NodePaths(Unwrap(root_node'))

C12_AsStated ==
    [][RescanKeepsPath =>
          /\ IsSome(selected_node_path')
          /\ FindNodeByPath(Unwrap(root_node'), Unwrap(selected_node_path'))
                = FindNodeByPath(Unwrap(root_node'), Unwrap(hist.remembered))]_vars

(***************************************************************************)
(* The hits of the treemap on display, call by call: the hits of the       *)
(* children of one node are those of one call of layout_treemap_rect, on   *)
(* the painter's rectangle for the children of the root and on the         *)
(* rectangle of the node shrunk by one point otherwise.                    *)
(***************************************************************************)
TopLevel(root, h) == Len(h.path) = Len(root.path) + 1
HitOf(hits, path) == hits[CHOOSE i \in 1..Len(hits) : hits[i].path = path]
CallRect(root, hits, h) ==
    IF TopLevel(root, h) THEN Canvas
    ELSE Shrink(HitOf(hits, Unwrap(Parent(h.path))).rect)

Within(a, b) == b.x1 <= a.x1 /\ a.x2 <= b.x2 /\ b.y1 <= a.y1 /\ a.y2 <= b.y2
InteriorsDisjoint(a, b) ==
    a.x2 <= b.x1 \/ b.x2 <= a.x1 \/ a.y2 <= b.y1 \/ b.y2 <= a.y1

SiblingsDisjoint(hits) ==
    \A i, j \in 1..Len(hits) :
        (i < j /\ Parent(hits[i].path) = Parent(hits[j].path))
            => InteriorsDisjoint(hits[i].rect, hits[j].rect)
AllWithin(root, hits) ==
    \A i \in 1..Len(hits) :
        /\ Within(hits[i].rect, CallRect(root, hits, hits[i]))
        /\ hits[i].rect.x1 <= hits[i].rect.x2 /\ hits[i].rect.y1 <= hits[i].rect.y2

(***************************************************************************)
(* C13: in the hits of every call of layout_treemap_rect on a rectangle,   *)
(* the rectangles of two siblings have disjoint interiors and every        *)
(* rectangle lies within the rectangle of the call: no far edge is beyond  *)
(* the far edge of that rectangle.                                         *)
(***************************************************************************)
C13_SiblingsDisjointContained ==
    IsSome(root_node) =>
        /\ SiblingsDisjoint(TreemapHits(Unwrap(root_node)))
        /\ AllWithin(Unwrap(root_node), TreemapHits(Unwrap(root_node)))

\* Three children of a third each: the shares add up to more than the
\* width, and the last rectangle ends at the far edge.
C13_Witness ==
    /\ fs = ThirdsFs /\ IsSome(root_node) /\ IsSome(hist.map_event)
    /\ Len(TreemapHits(Unwrap(root_node))) = 4
    /\ 3 * Share(Canvas, TRUE, 10, 30) > Width(Canvas)
    /\ \E i \in 1..4 : /\ TreemapHits(Unwrap(root_node))[i].rect.x2 = Canvas.x2
                       /\ TreemapHits(Unwrap(root_node))[i].rect.x1 > Canvas.x1

(***************************************************************************)
(* C14 as stated: for children whose sizes sum to more than 0, the areas   *)
(* of the top-level hit rectangles add up to the area of the painter's     *)
(* rectangle, up to the rounding of one coordinate step per child.         *)
(***************************************************************************)
RECURSIVE TopArea(_, _)
TopArea(root, hits) ==
    IF hits = << >> THEN 0
    ELSE (IF TopLevel(root, Head(hits)) THEN Area(Head(hits).rect) ELSE 0)
         + TopArea(root, Tail(hits))

RoundingEps(root) == Len(root.children) * Height(Canvas)

Covers(root) ==
    /\ TopArea(root, TreemapHits(root)) <= Area(Canvas) + RoundingEps(root)
    /\ TopArea(root, TreemapHits(root)) >= Area(Canvas) - RoundingEps(root)

C14_AsStated ==
    (IsSome(root_node) /\ SumSize(Unwrap(root_node).children) > 0)
        => Covers(Unwrap(root_node))

(***************************************************************************)
(* C15: copy_or_move checks its preconditions in the order invalid         *)
(* destination, source not found, self-nested move, path too long, and     *)
(* reports the first that fails; when it fails on one of them, nothing has *)
(* been created, renamed, copied or removed.                               *)
(***************************************************************************)
PreconditionErrors == {ErrInvalidDest, ErrNoSource, ErrSelfNested, ErrTooLong}

\* The first precondition the arguments fail, on the filesystem of the call.
FirstFailure(o) ==
    IF ~(Exists(o.f0, o.dest_dir) /\ IsDir(o.f0, o.dest_dir)) THEN Some(ErrInvalidDest)
    ELSE IF ~Exists(o.f0, o.src) THEN Some(ErrNoSource)
    ELSE IF o.is_cut /\ StartsWith(o.dest_dir, o.src) THEN Some(ErrSelfNested)
    ELSE IF o.windows /\ Len(o.dest_dir) + 1 > WinMaxPath THEN Some(ErrTooLong)
    ELSE None

C15_PreconditionOrder ==
    Done =>
        /\ IsSome(FirstFailure(call)) => call.result = FirstFailure(call)
        /\ Unwrap(call.result) \in PreconditionErrors =>
              /\ call.result = FirstFailure(call)
              /\ call.f = call.f0 /\ fs = call.f0
              /\ call.log = << >> /\ call.calls = 0

\* All four preconditions fail at once: the destination is reported.
C15_Witness ==
    /\ Done
    /\ ~IsDir(call.f0, call.dest_dir) /\ ~Exists(call.f0, call.src)
    /\ call.is_cut /\ StartsWith(call.dest_dir, call.src)
    /\ call.windows /\ Len(call.dest_dir) + 1 > WinMaxPath
    /\ call.result = Some(ErrInvalidDest)
    /\ fs = call.f0

(***************************************************************************)
(* C16: delete_path decides by the metadata of the entry itself.  A real   *)
(* directory goes with everything below it; any other entry, a symbolic    *)
(* link to a directory included, goes alone, and the target of a link and  *)
(* what the target contains stay as they were; a path that does not exist  *)
(* or a step the OS refuses gives an error.                                *)
(***************************************************************************)
Deleted == call.pc = "deleted"
Below(f, p) == {q \in DOMAIN f : StartsWith(q, p)}

C16_DeleteLinkAware ==
    Deleted =>
        /\ CallOk <=> (LExists(call.f0, call.src) /\ call.fail_at = 0)
        /\ ~CallOk => (call.result = Some(ErrOs) /\ call.f = call.f0)
        /\ (CallOk /\ call.f0[call.src].kind = "dir") =>
              call.f = Restrict(call.f0, DOMAIN call.f0 \ Below(call.f0, call.src))
        /\ (CallOk /\ call.f0[call.src].kind /= "dir") =>
              call.f = Restrict(call.f0, DOMAIN call.f0 \ {call.src})
        /\ (CallOk /\ call.f0[call.src].kind = "link") =>
              SubTree(call.f, call.f0[call.src].target)
                 = SubTree(call.f0, call.f0[call.src].target)
        /\ fs = call.f

\* A link to a directory that is not empty is deleted.
C16_Witness ==
    /\ Deleted /\ CallOk
    /\ call.src = Join(R, "ln")
    /\ call.f0[call.src].kind = "link"
    /\ IsDir(call.f0, call.src)
    /\ HasEntries(call.f0, call.f0[call.src].target)
    /\ ~LExists(fs, call.src)
    /\ HasEntries(fs, Join(R, "sub"))

(***************************************************************************)
(* C17: a failed or cancelled scan leaves no tree.  From start_scan until  *)
(* the result is consumed root_node is None; the update that consumes a    *)
(* result carrying an error leaves root_node None and the error text in    *)
(* status, the one that consumes a successful result installs its tree;    *)
(* root_node is Some only when the latest scan succeeded and its result    *)
(* was consumed.                                                           *)
(***************************************************************************)
ResultPending == is_scanning /\ IsSome(scan_receiver) /\ chan /= << >>

C17_FailedScanLeavesNoTree ==
    /\ is_scanning => root_node = None
    /\ IsSome(root_node) =>
          /\ scan_count > 0 /\ hist.shown = scan_count
          /\ hist.consumed[scan_count] = 1
    /\ (ResultPending /\ IsSome(Head(chan).error)) =>
          /\ Polled.root_node = None
          /\ Polled.status = <<Unwrap(Head(chan).error)>>
          /\ ~Polled.is_scanning
    /\ (ResultPending /\ ~IsSome(Head(chan).error)) =>
          /\ Polled.root_node = Head(chan).root_node
          /\ IsSome(Polled.root_node)

\* The tree of the first scan was on display (an entry was deleted through
\* it); the rescan was cancelled and its result consumed.
C17_Witness ==
    /\ scan_count = 2 /\ ~is_scanning
    /\ Join(R, "sub") \notin DOMAIN fs
    /\ hist.consumed[1] = 1 /\ hist.consumed[2] = 1
    /\ root_node = None
    /\ status = <<ErrCancelled>>

(***************************************************************************)
(* C18: in the update in which delete_path or copy_or_move is called from  *)
(* the interface and succeeds, start_scan runs on the current root_path    *)
(* and the tree on display is dropped; when the call fails no scan is      *)
(* started and root_node stays as it was; in no step does root_node        *)
(* change other than to None or to the tree of a received result.          *)
(* hist.mutation is how the call of the latest update ended; a step that   *)
(* changes the fields of the application or the filesystem is an update.   *)
(***************************************************************************)
MutationIn(ok) ==
    /\ hist'.mutation = Some(ok)
    /\ appVars' /= appVars \/ fs' /= fs

RescanStarted ==
    /\ scan_count' = scan_count + 1
    /\ is_scanning' /\ root_node' = None
    /\ w_id' = scan_count' /\ w_pc' = "start"
    /\ w_root' = Unwrap(root_path')
    /\ scan_receiver' = Some(scan_count') /\ chan' = << >>

C18_MutationThenRescan ==
    [][/\ (MutationIn(TRUE) /\ IsSome(root_path')) => RescanStarted
       /\ MutationIn(FALSE) =>
             /\ scan_count' = scan_count
             /\ root_node' = Polled.root_node
             /\ is_scanning' = Polled.is_scanning
       /\ root_node' \in {root_node, None, Polled.root_node}]_vars

\* The file was pasted into r/sub and the rescan has been started.
C18_Witness ==
    /\ hist.mutation = Some(TRUE)
    /\ Join(Join(R, "sub"), "a.txt") \in DOMAIN fs
    /\ is_scanning /\ scan_count = 2 /\ w_pc = "start"
    /\ w_root = Unwrap(root_path)
    /\ root_node = None

C19_NoPartialTree ==
    /\ (WorkerRunning /\ (w_obs.first \/ w_obs.dropped)) => Cancel
    /\ HasTree =>
          /\ ~w_obs.first /\ ~w_obs.dropped /\ ~w_obs.final
          /\ \A p \in DOMAIN res : IsSome(res[p]) <=> p \in Visible(fs, w_root)
          /\ NodePaths(Unwrap(Result.root_node)) = {w_root} \cup Visible(fs, w_root)
    /\ (Returned /\ w_obs.dropped) =>
          /\ w_obs.final
          /\ Result = ScanError(w_root, ErrCancelled)

\* Part of the tree was built, then an item was dropped by its checkpoint:
\* the result is Cancelled.
C19_Witness ==
    /\ Returned /\ ~w_obs.first /\ w_obs.dropped
    /\ \E p \in DOMAIN res : IsSome(res[p]) /\ Unwrap(res[p]).is_dir
                             /\ Unwrap(res[p]).children /= << >>
    /\ \E p \in DOMAIN res : res[p] = None /\ p \in Visible(fs, w_root)
    /\ Result = ScanError(w_root, ErrCancelled)

(***************************************************************************)
(* C21: on a filesystem that does not change and with the cancel flag      *)
(* never set, the tree scan_directory_parallel returns is the tree of the  *)
(* sequential depth-first scan ScanTree, in whatever order the parallel    *)
(* items ran and finished, and every entry that has a Node has exactly     *)
(* one: the merge neither duplicates nor loses a Node.                     *)
(***************************************************************************)
RECURSIVE NodeCount(_)
RECURSIVE NodeCountAll(_)
NodeCount(node) == 1 + NodeCountAll(node.children)
NodeCountAll(ns) ==
    IF ns = << >> THEN 0 ELSE NodeCount(Head(ns)) + NodeCountAll(Tail(ns))

C21_SameTreeAsSequential ==
    (Returned /\ ~Cancel /\ ReadDirOk(fs, w_root)) =>
        /\ Result = ScanOk(w_root, ScanTree(fs, w_root))
        /\ NodeCount(Unwrap(Result.root_node))
              = Cardinality(NodePaths(Unwrap(Result.root_node)))
        /\ \A p \in DOMAIN res : res[p] = BuildNode(fs, p)

\* The directory sub, listed after a.txt, finished before it.
C21_Witness ==
    /\ fs = ExampleFs /\ w_root = ScanRoot
    /\ Returned /\ ~Cancel /\ w_obs.overtaken
    /\ Result.root_node = Some(ScanTree(fs, w_root))
    /\ NodeCount(Unwrap(Result.root_node)) = 4

(***************************************************************************)
(* C22: a cancel flag is one-shot and per scan.  A flag that is set stays  *)
(* set as long as it exists; start_scan allocates a flag of its own,       *)
(* initially false, and stores it in cancel_flag; a flag is set only by a  *)
(* stop request made during its own scan; a scan reports Cancelled only    *)
(* when the stop was requested during that scan, never because of a stop   *)
(* requested for an earlier one.  hist.stopped is the set of scans a stop  *)
(* was requested for.                                                      *)
(***************************************************************************)
FlagOneShot ==
    \A id \in DOMAIN flag \cap DOMAIN flag' :
        /\ flag[id] => flag'[id]
        /\ (~flag[id] /\ flag'[id]) =>
              /\ id = scan_count /\ cancel_flag = Some(id) /\ Polled.is_scanning
              /\ id \in hist'.stopped

FlagPerScan ==
    \A id \in DOMAIN flag' \ DOMAIN flag :
        /\ id = scan_count + 1 /\ scan_count' = id
        /\ ~flag'[id]
        /\ cancel_flag' = Some(id) /\ w_id' = id
        /\ id \notin hist'.stopped

CancelledOnlyByOwnStop ==
    /\ (w_pc' = "ret" /\ Unwrap(w_result').error = Some(ErrCancelled)) =>
          (w_id' \in hist'.stopped /\ flag'[w_id'])
    /\ hist'.stopped \subseteq 1..scan_count'

C22_FlagOneShotPerScan ==
    [][FlagOneShot /\ FlagPerScan /\ CancelledOnlyByOwnStop]_vars

\* A stop was requested for the first scan and its result was consumed; the
\* second scan, never stopped, returns a tree.
C22_Witness ==
    /\ hist.stopped = {1}
    /\ hist.consumed[1] = 1
    /\ w_id = 2 /\ HasTree
    /\ ~flag[2]

(***************************************************************************)
(* C23: cancellation checkpoints.  With the cancel flag set, the step of a *)
(* par_iter item that begins does not call build_node, and a build_node    *)
(* that begins returns an error: the item ends without a Node, no          *)
(* directory is listed (no item is spawned) and no metadata is read; only  *)
(* an operation already past its checkpoint goes on.  At the start of the  *)
(* scan the root is not examined either.                                   *)
(***************************************************************************)
BeginsAt(p, pos) ==
    /\ p \in DOMAIN slot /\ slot[p] = pos
    /\ p \in DOMAIN slot' /\ slot'[p] /= pos

StoppedAtCheckpoint(p) ==
    /\ slot'[p] = "done" /\ res'[p] = None
    /\ DOMAIN slot' = DOMAIN slot
    /\ DOMAIN res' = DOMAIN res \cup {p}

C23_CheckpointsStopWork ==
    [][(w_id \in DOMAIN flag /\ Cancel) =>
          /\ \A p \in DOMAIN slot :
                (BeginsAt(p, "todo") \/ BeginsAt(p, "call")) => StoppedAtCheckpoint(p)
          /\ (w_pc = "start" /\ w_pc' /= "start") =>
                (w_pc' = "ret" /\ slot' = << >>)]_vars

\* A directory with entries was reached after the flag was set: it was not
\* listed, while a directory entered before is still waiting for its items.
C23_Witness ==
    /\ w_pc = "par" /\ Cancel
    /\ \E p \in DOMAIN slot :
          /\ slot[p] = "done" /\ res[p] = None
          /\ ReadDirOk(fs, p) /\ HasEntries(fs, p)
          /\ \A q \in DOMAIN slot : q = p \/ ~StartsWith(q, p)
    /\ \E p \in DOMAIN slot : slot[p] = "join"

(***************************************************************************)
(* C24: every scan completes.  With the worker thread scheduled fairly and *)
(* update called again while a scan is active, every scan that start_scan  *)
(* starts reaches the point where its worker has sent its ScanResult, and  *)
(* every result sent is consumed by update, which ends the scan; so does   *)
(* every scan a stop was requested for.                                    *)
(***************************************************************************)
WorkerOf(id)   == w_id = id /\ WorkerRunning
SentBy(id)     == scan_count >= id /\ hist.produced[id] = 1
ConsumedOf(id) == scan_count >= id /\ hist.consumed[id] = 1
StopAsked(id)  == scan_count = id /\ is_scanning /\ id \in hist.stopped

C24_EveryScanCompletes ==
    \A id \in 1..ScanRuns :
        /\ WorkerOf(id) ~> SentBy(id)
        /\ (SentBy(id) /\ ~ConsumedOf(id))
               ~> (ConsumedOf(id) /\ (scan_count = id => ~is_scanning))
        /\ StopAsked(id) ~> (ConsumedOf(id) /\ (scan_count = id => ~is_scanning))

\* A scan of a directory with entries was stopped, its worker sent the
\* Cancelled result and update consumed it.
C24_Witness ==
    /\ scan_count = 1 /\ ~is_scanning /\ w_pc = "sent"
    /\ hist.stopped = {1}
    /\ hist.produced[1] = 1 /\ hist.consumed[1] = 1
    /\ status = <<ErrCancelled>>
    /\ \E p \in DOMAIN fs : Len(p) >= 2


(***************************************************************************)
(* C25: an unreadable subdirectory or an entry of unsupported type that    *)
(* the traversal meets is skipped: the tree a scan returns holds no Node   *)
(* for it, and the size and file_count of the root count nothing of it or  *)
(* of what is below it.                                                    *)
(***************************************************************************)
C25_AsStated ==
    HasTree =>
        /\ \A q \in FailedEntries(fs, w_root) :
              q \notin NodePaths(Unwrap(Result.root_node))
        /\ Unwrap(Result.root_node).size = SizeOver(fs, Visible(fs, w_root))
        /\ Unwrap(Result.root_node).file_count =
              Cardinality({q \in Visible(fs, w_root) : fs[q].kind = "file"})


(***************************************************************************)
(* C26: the hits are in pre-order and nested.  In the list built for the   *)
(* tree on display the hit of a node comes before the hit of each of its   *)
(* descendants, and the rectangle of a descendant lies inside the          *)
(* rectangle of each ancestor's hit shrunk by one point on every side.     *)
(***************************************************************************)
IsDescendant(q, p) == StartsWith(q, p) /\ q /= p
ShrunkByOne(r) == Rect(r.x1 + Unit, r.y1 + Unit, r.x2 - Unit, r.y2 - Unit)

PreOrderNested(hits) ==
    \A i, j \in 1..Len(hits) :
        IsDescendant(hits[j].path, hits[i].path) =>
            /\ i < j
            /\ Within(hits[j].rect, ShrunkByOne(hits[i].rect))

C26_HitsPreOrderNested ==
    IsSome(root_node) => PreOrderNested(TreemapHits(Unwrap(root_node)))

\* The treemap of NestedFs was used: a file two directories down has a hit
\* after those of both directories, and a sibling's hit comes after it.
C26_Witness ==
    /\ fs = NestedFs /\ IsSome(root_node) /\ IsSome(hist.map_event)
    /\ \E i, j, k, l \in 1..Len(TreemapHits(Unwrap(root_node))) :
          /\ i < j /\ j < k /\ k < l
          /\ IsDescendant(TreemapHits(Unwrap(root_node))[j].path,
                          TreemapHits(Unwrap(root_node))[i].path)
          /\ IsDescendant(TreemapHits(Unwrap(root_node))[k].path,
                          TreemapHits(Unwrap(root_node))[j].path)
          /\ ~IsDescendant(TreemapHits(Unwrap(root_node))[l].path,
                           TreemapHits(Unwrap(root_node))[i].path)


(***************************************************************************)
(* C27: the treemap goes four levels deep and no further.  Every hit is    *)
(* for a node at layout depth 0 to 3 (a child of the displayed root is at  *)
(* depth 0), whatever the depth of the tree; the nodes below stay in the   *)
(* tree, where find_node_by_path finds them, and no frame changes the tree *)
(* on display unless it starts a scan.                                     *)
(***************************************************************************)
LayoutDepth(root, path) == Len(path) - Len(root.path) - 1

HitsWithinCap(root) ==
    \A i \in 1..Len(TreemapHits(root)) :
        LayoutDepth(root, TreemapHits(root)[i].path) \in 0..MapMaxDepth
AllReachable(root) ==
    \A q \in NodePaths(root) :
        /\ IsSome(FindNodeByPath(root, q))
        /\ Unwrap(FindNodeByPath(root, q)).path = q

C27_DepthCap ==
    /\ [](IsSome(root_node) =>
             /\ HitsWithinCap(Unwrap(root_node))
             /\ AllReachable(Unwrap(root_node)))
    /\ [][scan_count' = scan_count => root_node' = root_node]_vars

\* The treemap of DeepFs was used: the tree has nodes at layout depth 4 and
\* 5, the hits end at depth 3.
C27_Witness ==
    /\ fs = DeepFs /\ IsSome(hist.map_event)
    /\ root_node = Some(ScanTree(DeepFs, R))
    /\ \E q \in NodePaths(Unwrap(root_node)) : LayoutDepth(Unwrap(root_node), q) = 5
    /\ \E i \in 1..Len(TreemapHits(Unwrap(root_node))) :
          LayoutDepth(Unwrap(root_node), TreemapHits(Unwrap(root_node))[i].path) = 3


(***************************************************************************)
(* C28: slice cursor and visibility.  No hit is recorded for a node of     *)
(* size 0; every hit's rectangle is at least 2 points wide and 2 points    *)
(* high; and the slice of a node starts at the near edge of the rectangle  *)
(* being divided plus the unclamped slice lengths of all the siblings of   *)
(* non-zero size before it, those skipped as too small included.           *)
(***************************************************************************)
\* The children of the node the hit's node is a child of, in stored order.
SiblingsOf(root, h) == Unwrap(FindNodeByPath(root, Unwrap(Parent(h.path)))).children
IndexIn(nodes, path) == CHOOSE k \in 1..Len(nodes) : nodes[k].path = path
Horizontal(root, h) == LayoutDepth(root, h.path) % 2 = 0
NearEdge(rect, horizontal) == IF horizontal THEN rect.x1 ELSE rect.y1

RECURSIVE SharesBefore(_, _, _, _, _)
SharesBefore(rect, horizontal, nodes, total, k) ==
    IF k = 0 THEN 0
    ELSE SharesBefore(rect, horizontal, nodes, total, k - 1)
         + (IF nodes[k].size = 0 THEN 0
            ELSE Share(rect, horizontal, nodes[k].size, total))

SliceStart(root, hits, h) ==
    NearEdge(CallRect(root, hits, h), Horizontal(root, h))
    + SharesBefore(CallRect(root, hits, h), Horizontal(root, h),
                   SiblingsOf(root, h), Max(SumSize(SiblingsOf(root, h)), 1),
                   IndexIn(SiblingsOf(root, h), h.path) - 1)

CursorAndVisibility(root, hits) ==
    \A i \in 1..Len(hits) :
        /\ hits[i].size /= 0
        /\ Unwrap(FindNodeByPath(root, hits[i].path)).size /= 0
        /\ Width(hits[i].rect) >= MinSide * Unit
        /\ Height(hits[i].rect) >= MinSide * Unit
        /\ NearEdge(hits[i].rect, Horizontal(root, hits[i])) = SliceStart(root, hits, hits[i])

C28_SliceCursorAndVisibility ==
    IsSome(root_node) =>
        CursorAndVisibility(Unwrap(root_node), TreemapHits(Unwrap(root_node)))

\* The treemap of ZeroFs was used.  Of its eight nodes below the root two
\* have size 0 and three are thinner than 2 points; the three others have
\* hits, and the hit of b.txt starts after the slice of sub.
C28_Witness ==
    /\ fs = ZeroFs /\ IsSome(hist.map_event)
    /\ root_node = Some(ScanTree(ZeroFs, R))
    /\ Len(TreemapHits(Unwrap(root_node))) = 3
    /\ Cardinality({q \in NodePaths(Unwrap(root_node)) :
                       Unwrap(FindNodeByPath(Unwrap(root_node), q)).size = 0}) = 2
    /\ \E i \in 1..3 :
          /\ TreemapHits(Unwrap(root_node))[i].path = Join(R, "b.txt")
          /\ TreemapHits(Unwrap(root_node))[i].rect.x1
                = Share(Canvas, TRUE, 101, 202)


(***************************************************************************)
(* C29: find_node_by_path(root, target) returns the first node, in         *)
(* depth-first pre-order (a node before its children, the children in      *)
(* stored order), whose path is target; it returns None exactly when no    *)
(* node of the tree has that path; and looking a node up leaves the tree   *)
(* as it was.                                                              *)
(***************************************************************************)
RECURSIVE PreOrder(_)
RECURSIVE PreOrderAll(_)
PreOrder(node) == <<node>> \o PreOrderAll(node.children)
PreOrderAll(nodes) ==
    IF nodes = << >> THEN << >> ELSE PreOrder(Head(nodes)) \o PreOrderAll(Tail(nodes))

FirstInPreOrder(root, target) ==
    LET seq == PreOrder(root)
        at == {i \in 1..Len(seq) : seq[i].path = target}
    IN IF at = {} THEN None
       ELSE Some(seq[CHOOSE i \in at : \A j \in at : i <= j])

\* The paths looked up: those on disk, one step below each, and the empty path.
LookupTargets(f) ==
    DOMAIN f \cup {Join(q, NameOrder[k]) : q \in DOMAIN f, k \in 1..Len(NameOrder)}
             \cup {<< >>}

C29_FindsFirstInPreOrder ==
    /\ [](IsSome(root_node) =>
            \A t \in LookupTargets(fs) :
                /\ FindNodeByPath(Unwrap(root_node), t)
                      = FirstInPreOrder(Unwrap(root_node), t)
                /\ FindNodeByPath(Unwrap(root_node), t) = None
                      <=> t \notin NodePaths(Unwrap(root_node)))
    /\ [][(IsSome(GetSelectedNode(Cur)) /\ IsSome(GetSelectedNode(Cur)'))
             => root_node' = root_node]_vars

\* The node selected in the treemap is found: it is the fourth or a later
\* one in pre-order, after a directory with a child, and no node before it
\* has its path; a path of the tree's directory with another name is not
\* found.
C29_Witness ==
    /\ IsSome(GetSelectedNode(Cur)) /\ IsSome(hist.map_event)
    /\ \E j \in 2..Len(PreOrder(Unwrap(root_node))) :
          Len(PreOrder(Unwrap(root_node))[j].path) = Len(R) + 2
    /\ \E i \in 4..Len(PreOrder(Unwrap(root_node))) :
          /\ PreOrder(Unwrap(root_node))[i] = Unwrap(GetSelectedNode(Cur))
          /\ \A j \in 1..(i - 1) :
                PreOrder(Unwrap(root_node))[j].path /= Unwrap(selected_node_path)
    /\ \E t \in LookupTargets(fs) :
          StartsWith(t, R) /\ FindNodeByPath(Unwrap(root_node), t) = None


(***************************************************************************)
(* C30: the scan lifecycle of the interactive state is coupled.  Between   *)
(* two calls of update, is_scanning is true exactly when scan_receiver is  *)
(* present and exactly when cancel_flag is present; a frame that starts a  *)
(* scan leaves all three set, and a frame that consumes a result without   *)
(* starting a scan leaves all three cleared.                               *)
(***************************************************************************)
AllSet(s)     == s.is_scanning /\ IsSome(s.scan_receiver) /\ IsSome(s.cancel_flag)
AllCleared(s) == ~s.is_scanning /\ ~IsSome(s.scan_receiver) /\ ~IsSome(s.cancel_flag)
Consumes      == \E id \in DOMAIN hist.consumed : hist.consumed'[id] > hist.consumed[id]
Starts        == scan_count' > scan_count

C30_LifecycleCoupled ==
    /\ [](AllSet(Cur) \/ AllCleared(Cur))
    /\ [][/\ Starts => AllSet(Cur)'
          /\ (Consumes /\ ~Starts) => (AllSet(Cur) /\ AllCleared(Cur)')]_vars

\* The second scan is running after the first one's result was consumed.
C30_Witness ==
    /\ scan_count = 2 /\ AllSet(Cur)
    /\ hist.consumed[1] = 1 /\ hist.consumed[2] = 0
    /\ scan_receiver = Some(2) /\ cancel_flag = Some(2)


(***************************************************************************)
(* C31: a successful copy leaves the source as it was.  When copy_or_move  *)
(* with is_cut = false returns Ok, src still exists and it and everything  *)
(* below it are what they were before the call, for every dest_dir, the    *)
(* parent directory of src included.                                       *)
(***************************************************************************)
C31_AsStated ==
    (Done /\ ~call.is_cut /\ CallOk) =>
        /\ LExists(call.f, call.src)
        /\ SubTree(call.f, call.src) = SubTree(call.f0, call.src)


(***************************************************************************)
(* SpecFsLive: SpecFs with a call that keeps running: copy_or_move is      *)
(* straight-line code on the interactive thread, each of its steps is      *)
(* taken once the one before has returned.                                 *)
(***************************************************************************)
CallStep ==
    \/ CallCheckDest
    \/ CallCheckSrc
    \/ CallCheckNested
    \/ CallCheckLen
    \/ CallTryRename
    \/ CallCopyTop
    \/ CallCdrCreate
    \/ CallCdrReadDir
    \/ CallCdrEntry
    \/ CallDeleteSource

SpecFsLive == SpecFs /\ WF_vars(CallStep)

(***************************************************************************)
(* C32: copy_or_move terminates.  Every call returns, a copy whose         *)
(* dest_dir is the source directory or lies under it included, and what    *)
(* it creates is bounded: every entry it adds lies under the destination   *)
(* path, no deeper than the OS accepts, under a name of the source.        *)
(***************************************************************************)
Running == call.pc \notin {"idle", "done", "deleted"}
Created == DOMAIN call.f \ DOMAIN call.f0
SourceNames ==
    {FileName(q) : q \in {x \in DOMAIN call.f0 : StartsWith(x, call.src)}}
BoundedCreation ==
    \A q \in Created :
        /\ StartsWith(q, DestPath(call))
        /\ Len(q) <= PathLimit
        /\ \A k \in (Len(call.dest_dir) + 1)..Len(q) : q[k] \in SourceNames

C32_CopyTerminates ==
    /\ Running ~> Done
    /\ [](call.pc /= "idle" => BoundedCreation)

\* A copy of a directory into itself has returned, with the error of the
\* OS, after filling the destination down to the deepest path accepted.
C32_Witness ==
    /\ Done /\ ~call.is_cut /\ call.result = Some(ErrOs)
    /\ LExists(call.f0, call.src)
    /\ call.f0[call.src].kind = "dir" /\ call.dest_dir = call.src
    /\ \E q \in Created : Len(q) = PathLimit


(***************************************************************************)
(* C33: the tree on display comes from the scan started last.  While a     *)
(* scan is active the stored receiver is that of the latest start_scan     *)
(* and the only worker is that scan's; a result waiting in the channel was *)
(* produced by that worker for the path that scan was started on; update   *)
(* consumes a result only for the latest scan and only once its worker has *)
(* sent it; and a displayed tree is the tree of the latest scan, no scan   *)
(* having been started while another's worker was running.                 *)
(***************************************************************************)
LatestReceiver ==
    is_scanning => (scan_receiver = Some(scan_count) /\ w_id = scan_count)
PendingIsLatest ==
    chan /= << >> =>
        /\ Len(chan) = 1
        /\ hist.produced[scan_count] = 1 /\ hist.consumed[scan_count] = 0
        /\ Head(chan).root_path = w_root
ShownIsLatest ==
    IsSome(root_node) =>
        /\ hist.shown = scan_count /\ w_id = scan_count
        /\ Unwrap(root_node).path = w_root
ConsumesLatestOnly ==
    \A id \in DOMAIN hist.consumed :
        hist.consumed'[id] > hist.consumed[id] =>
            /\ id = scan_count /\ scan_receiver = Some(id)
            /\ hist.produced[id] = 1 /\ chan /= << >>

RootPathIsTreeRoot ==
    IsSome(root_node) => root_path = Some(Unwrap(root_node).path)
RescanOfDisplayedRoot ==
    (IsSome(root_node) /\ hist.mutation' = Some(TRUE) /\ scan_count' > scan_count)
        => w_root' = Unwrap(root_node).path

C34_AsStated ==
    /\ []RootPathIsTreeRoot
    /\ [][RescanOfDisplayedRoot]_vars

====
